---- MODULE Spec2Model ----
(***************************************************************************)
(* Model of the scene object model and its undo/redo history engine        *)
(* (src/src/models) and of the mesh cache of the renderer                  *)
(* (src/src/rendering).  Lengths are in millimetres, angles in degrees and *)
(* colour channels in thousandths, so that the values of the code are      *)
(* integers.  Python objects live in a heap (heap: reference -> record);   *)
(* the lists and the id index of the scene manager hold references, as in  *)
(* the code, so that aliasing and identity are those of the program.       *)
(***************************************************************************)
EXTENDS Integers, Sequences, FiniteSets, TLC

(* ------------------------------ bounds -------------------------------- *)
MaxSteps == 4
MaxHistSteps == 8
MaxE2ESteps == 6
MaxDoors == 2
MaxWindows == 1
MaxFurniture == 1
MaxEditSteps == 4
MaxColorSteps == 3
MaxLoadSteps == 3
MaxPickSteps == 5
MaxDimSteps == 2
MaxPaintSteps == 3
MaxRenderSteps == 4

(* --------------------------- program constants ------------------------ *)
None == 0
max_history == 20
(* a colour attribute holding Python None *)
NoColor == <<>>
(* the id of a room made by set_room: str(uuid.uuid4()), never a key of the *)
(* id index                                                                *)
UUID == "uuid4"
(* a rotation component is counted in 2^-17 degree: every float32 from 64   *)
(* to 512 degrees is a whole number of them                                *)
Deg == 2^17

(* str(last_id): the decimal string of the id counter *)
Digits == <<"0", "1", "2", "3", "4", "5", "6", "7", "8", "9">>
str(n) == Digits[n + 1]

Max(a, b) == IF a >= b THEN a ELSE b
Min(a, b) == IF a <= b THEN a ELSE b

(* ---------------------- Python dict (insertion ordered) ---------------- *)
(* A dict is a sequence of <<key, value>> pairs with distinct keys.        *)
DictKeys(d) == {d[i][1] : i \in 1..Len(d)}
DictHas(d, k) == k \in DictKeys(d)
DictPos(d, k) == CHOOSE i \in 1..Len(d) : d[i][1] = k
DictGet(d, k) == d[DictPos(d, k)][2]
DictSet(d, k, v) ==
    IF DictHas(d, k) THEN [d EXCEPT ![DictPos(d, k)] = <<k, v>>]
    ELSE Append(d, <<k, v>>)
DictDel(d, k) ==
    LET p == DictPos(d, k)
    IN  SubSeq(d, 1, p - 1) \o SubSeq(d, p + 1, Len(d))
DictValues(d) == {d[i][2] : i \in 1..Len(d)}

(* list.remove(x): removes the first occurrence *)
ListRemove(s, x) ==
    LET p == CHOOSE i \in 1..Len(s) : s[i] = x /\ \A j \in 1..(i - 1) : s[j] # x
    IN  SubSeq(s, 1, p - 1) \o SubSeq(s, p + 1, Len(s))
ListHas(s, x) == \E i \in 1..Len(s) : s[i] = x

(* ------------------------------ entities ------------------------------ *)
(* BaseObject.__init__ *)
BaseObject(object_id, name, position, rotation) ==
    [id |-> object_id, name |-> name, position |-> position,
     rotation |-> rotation, scale |-> <<1, 1, 1>>, visible |-> TRUE,
     selectable |-> TRUE, is_selected |-> FALSE]

(* BaseObject.to_dict *)
BaseToDict(o) ==
    [id |-> o.id, name |-> o.name, position |-> o.position,
     rotation |-> o.rotation, scale |-> o.scale, visible |-> o.visible,
     selectable |-> o.selectable, is_selected |-> o.is_selected]

(* Room.__init__ *)
Room(room_id, name, room_type, width, length, height, position, rotation) ==
    BaseObject(room_id, name, position, rotation) @@
    [kind |-> "Room", room_type |-> room_type,
     width |-> Max(1000, width), length |-> Max(1000, length),
     height |-> Max(1000, height),
     wall_color |-> <<800, 800, 800>>,
     north_wall_color |-> NoColor, south_wall_color |-> NoColor,
     east_wall_color |-> NoColor, west_wall_color |-> NoColor,
     floor_color |-> <<800, 800, 800>>, ceiling_color |-> <<800, 800, 800>>,
     interior_wall_color |-> <<850, 850, 820>>,
     interior_north_wall_color |-> NoColor,
     interior_south_wall_color |-> NoColor,
     interior_east_wall_color |-> NoColor,
     interior_west_wall_color |-> NoColor,
     interior_floor_color |-> <<820, 800, 750>>,
     interior_ceiling_color |-> <<900, 900, 900>>,
     wall_opacity |-> 1000, floor_opacity |-> 1000, ceiling_opacity |-> 1000]

(* Room.width, Room.length and Room.height setters *)
RoomSetDimension(o, attr, value) == [o EXCEPT ![attr] = Max(1000, value)]

(* Room.to_dict *)
RoomToDict(o) ==
    BaseToDict(o) @@
    [type |-> "Room", room_type |-> o.room_type, width |-> o.width,
     length |-> o.length, height |-> o.height, wall_color |-> o.wall_color,
     north_wall_color |-> o.north_wall_color,
     south_wall_color |-> o.south_wall_color,
     east_wall_color |-> o.east_wall_color,
     west_wall_color |-> o.west_wall_color,
     floor_color |-> o.floor_color, ceiling_color |-> o.ceiling_color,
     interior_wall_color |-> o.interior_wall_color,
     interior_north_wall_color |-> o.interior_north_wall_color,
     interior_south_wall_color |-> o.interior_south_wall_color,
     interior_east_wall_color |-> o.interior_east_wall_color,
     interior_west_wall_color |-> o.interior_west_wall_color,
     interior_floor_color |-> o.interior_floor_color,
     interior_ceiling_color |-> o.interior_ceiling_color,
     wall_opacity |-> o.wall_opacity, floor_opacity |-> o.floor_opacity,
     ceiling_opacity |-> o.ceiling_opacity]

(* Room.from_dict (is_selected, scale, visible, selectable are not read) *)
RoomFromDict(data) ==
    [Room(data.id, data.name, data.room_type, data.width, data.length,
          data.height, data.position, data.rotation)
     EXCEPT !.wall_color = data.wall_color,
            !.north_wall_color = data.north_wall_color,
            !.south_wall_color = data.south_wall_color,
            !.east_wall_color = data.east_wall_color,
            !.west_wall_color = data.west_wall_color,
            !.floor_color = data.floor_color,
            !.ceiling_color = data.ceiling_color,
            !.interior_wall_color = data.interior_wall_color,
            !.interior_north_wall_color = data.interior_north_wall_color,
            !.interior_south_wall_color = data.interior_south_wall_color,
            !.interior_east_wall_color = data.interior_east_wall_color,
            !.interior_west_wall_color = data.interior_west_wall_color,
            !.interior_floor_color = data.interior_floor_color,
            !.interior_ceiling_color = data.interior_ceiling_color,
            !.wall_opacity = data.wall_opacity,
            !.floor_opacity = data.floor_opacity,
            !.ceiling_opacity = data.ceiling_opacity]

(* Door.__init__ *)
Door(door_id, name, door_type, width, height, position, rotation) ==
    BaseObject(door_id, name, position, rotation) @@
    [kind |-> "Door", door_type |-> door_type, width |-> Max(600, width),
     height |-> Max(1800, height), thickness |-> 50,
     color |-> <<600, 400, 200>>, open_angle |-> 0, is_open |-> FALSE]

(* a Door.thickness setter that stores what it is given *)
DoorSetThickness_NoFloor(o, thickness) == [o EXCEPT !.thickness = thickness]

(* Door.thickness setter *)
DoorSetThickness(o, thickness) == [o EXCEPT !.thickness = Max(10, thickness)]

(* Door.width and Door.height setters *)
DoorSetDimension(o, attr, value) ==
    IF attr = "width" THEN [o EXCEPT !.width = Max(600, value)]
    ELSE IF attr = "height" THEN [o EXCEPT !.height = Max(1800, value)]
    ELSE DoorSetThickness(o, value)

(* Door.open_angle setter *)
DoorSetOpenAngle(o, angle) ==
    LET a == Max(0, Min(90, angle))
    IN  [o EXCEPT !.open_angle = a, !.is_open = (a > 0)]

(* Door.to_dict *)
DoorToDict(o) ==
    BaseToDict(o) @@
    [type |-> "Door", door_type |-> o.door_type, width |-> o.width,
     height |-> o.height, thickness |-> o.thickness, color |-> o.color,
     open_angle |-> o.open_angle, is_open |-> o.is_open]

(* Door.from_dict *)
DoorFromDict(data) ==
    LET d0 == Door(data.id, data.name, data.door_type, data.width,
                   data.height, data.position, data.rotation)
        d1 == DoorSetThickness(d0, data.thickness)
        d2 == [d1 EXCEPT !.color = data.color]
        d3 == DoorSetOpenAngle(d2, data.open_angle)
    IN  [d3 EXCEPT !.scale = data.scale, !.visible = data.visible,
                   !.selectable = data.selectable]

(* Window.__init__: _segments is 1 and _angle 0 whatever the type *)
Window(window_id, name, window_type, width, height, position, rotation) ==
    BaseObject(window_id, name, position, rotation) @@
    [kind |-> "Window", window_type |-> window_type,
     width |-> Max(500, width), height |-> Max(500, height),
     thickness |-> 100, frame_color |-> <<950, 950, 950>>,
     glass_color |-> <<950, 970, 990, 400>>, glass_transparency |-> 600,
     open_percentage |-> 0, is_open |-> FALSE, angle |-> 0, segments |-> 1]

(* Window.width, Window.height and Window.thickness setters *)
WindowSetDimension(o, attr, value) ==
    IF attr = "thickness" THEN [o EXCEPT !.thickness = Max(50, value)]
    ELSE [o EXCEPT ![attr] = Max(500, value)]

(* Window.segments setter *)
WindowSetSegments(o, segments) ==
    [o EXCEPT !.segments =
        IF o.window_type = "Bay Window" THEN Max(3, segments)
        ELSE IF o.window_type = "Double Window" THEN 2 ELSE 1]

(* Window.angle setter *)
WindowSetAngle(o, angle) ==
    IF o.window_type = "Bay Window"
    THEN [o EXCEPT !.angle = Max(90, Min(180, angle))]
    ELSE o

(* Window.open_percentage setter *)
WindowSetOpenPercentage(o, percentage) ==
    LET p == Max(0, Min(100, percentage))
    IN  [o EXCEPT !.open_percentage = p, !.is_open = (p > 0)]

(* Window.to_dict: "angle" is written for a Bay Window only *)
WindowToDict(o) ==
    LET d == BaseToDict(o) @@
             [type |-> "Window", window_type |-> o.window_type,
              width |-> o.width, height |-> o.height,
              thickness |-> o.thickness, frame_color |-> o.frame_color,
              glass_color |-> o.glass_color,
              glass_transparency |-> o.glass_transparency,
              open_percentage |-> o.open_percentage, is_open |-> o.is_open,
              segments |-> o.segments]
    IN  IF o.window_type = "Bay Window" THEN d @@ [angle |-> o.angle] ELSE d

(* Window.from_dict *)
WindowFromDict(data) ==
    LET w0 == Window(data.id, data.name, data.window_type, data.width,
                     data.height, data.position, data.rotation)
        w1 == [w0 EXCEPT !.thickness = Max(50, data.thickness),
                         !.frame_color = data.frame_color,
                         !.glass_color = data.glass_color,
                         !.glass_transparency =
                             Max(0, Min(1000, data.glass_transparency))]
        w2 == WindowSetOpenPercentage(w1, data.open_percentage)
        w3 == WindowSetSegments(w2, data.segments)
        w4 == IF "angle" \in DOMAIN data /\ w3.window_type = "Bay Window"
              THEN WindowSetAngle(w3, data.angle) ELSE w3
    IN  [w4 EXCEPT !.scale = data.scale, !.visible = data.visible,
                   !.selectable = data.selectable]

(* Furniture._set_default_color *)
DefaultColor(category, color) ==
    CASE category = "Chairs" -> <<300, 300, 350>>
      [] category = "Tables" -> <<600, 400, 200>>
      [] category = "Sofas"  -> <<200, 200, 600>>
      [] category = "Beds"   -> <<900, 900, 900>>
      [] OTHER -> color

(* Furniture.__init__; adjustable_parts maps a part name to the reference *)
(* of its {min, max, current} dict                                         *)
Furniture(furniture_id, name, furniture_type, category, width, depth, height, position, rotation) ==
    BaseObject(furniture_id, name, position, rotation) @@
    [kind |-> "Furniture", furniture_type |-> furniture_type,
     category |-> category, width |-> Max(100, width),
     depth |-> Max(100, depth), height |-> Max(100, height),
     color |-> DefaultColor(category, <<800, 800, 800>>),
     material_type |-> "wood", adjustable_parts |-> <<>>]

(* Furniture.width, Furniture.depth and Furniture.height setters *)
FurnitureSetDimension(o, attr, value) == [o EXCEPT ![attr] = Max(100, value)]

valid_materials == {"wood", "metal", "fabric", "leather", "glass", "plastic"}

(* Furniture.to_dict: adjustable_parts.copy() is a shallow copy, the part  *)
(* dicts themselves are shared with the live object                        *)
FurnitureToDictShallow(o) ==
    BaseToDict(o) @@
    [type |-> "Furniture", furniture_type |-> o.furniture_type,
     category |-> o.category, width |-> o.width, depth |-> o.depth,
     height |-> o.height, color |-> o.color,
     material_type |-> o.material_type,
     adjustable_parts |-> o.adjustable_parts]

(* ------------------------- the scene manager -------------------------- *)
(* A scene manager is a record m:                                          *)
(*   room, selected_object : a reference or None                           *)
(*   doors, windows, furniture : lists of references                       *)
(*   object_map : dict id -> reference        last_id : the id counter     *)
(*   history : list of [objects, description]  history_index : the cursor  *)
(*   heap : reference -> entity      parts : reference -> adjustable part  *)
(*   calls : the _save_state calls of the running handler, in order        *)

(* allocation of a Python object: a reference not in use *)
NewRef(h) ==
    CHOOSE r \in 1..(Cardinality(DOMAIN h) + 1) :
        r \notin DOMAIN h /\ \A q \in 1..(r - 1) : q \in DOMAIN h

Restrict(f, S) == [x \in (DOMAIN f) \cap S |-> f[x]]
SeqRange(s) == {s[i] : i \in 1..Len(s)}

(* the references held by the manager *)
LiveRefs(m) ==
    ({m.room, m.selected_object} \ {None}) \cup SeqRange(m.doors)
    \cup SeqRange(m.windows) \cup SeqRange(m.furniture)
    \cup DictValues(m.object_map)

(* the part dicts held by a live Furniture or by a stored snapshot *)
PartRefsOf(ap) == {ap[n] : n \in DOMAIN ap}
SnapshotParts(objects) ==
    UNION {PartRefsOf(objects[j][2].adjustable_parts) :
             j \in {k \in 1..Len(objects) : objects[k][2].type = "Furniture"}}
LiveParts(m) ==
    UNION {PartRefsOf(m.heap[r].adjustable_parts) :
             r \in {q \in DOMAIN m.heap : m.heap[q].kind = "Furniture"}}
    \cup UNION {SnapshotParts(m.history[i].objects) : i \in 1..Len(m.history)}

(* objects nothing refers to any more are freed *)
CollectParts(m) == [m EXCEPT !.parts = Restrict(m.parts, LiveParts(m))]
Collect(m) == CollectParts([m EXCEPT !.heap = Restrict(m.heap, LiveRefs(m))])

(* obj.to_dict() *)
to_dict(o) ==
    CASE o.kind = "Room" -> RoomToDict(o)
      [] o.kind = "Door" -> DoorToDict(o)
      [] o.kind = "Window" -> WindowToDict(o)
      [] o.kind = "Furniture" -> FurnitureToDictShallow(o)

(* SceneManager.save_scene: the id index only; self.room is not in it      *)
(* unless load_scene put a loaded Room there                               *)
save_scene(m) ==
    [i \in 1..Len(m.object_map) |->
        <<m.object_map[i][1], to_dict(m.heap[m.object_map[i][2]])>>]

(* SceneManager._save_state, its end: the cap on the history, the cursor *)
push_history(m, appended) ==
    IF Len(appended) > max_history
    THEN [m EXCEPT !.history = Tail(appended),
                   !.history_index = Len(appended) - 2]
    ELSE [m EXCEPT !.history = appended,
                   !.history_index = Len(appended) - 1]

save_state_NoTruncate(m, description) ==
    push_history(m, Append(m.history,
        [objects |-> save_scene(m), description |-> description]))

(* SceneManager._save_state *)
_save_state(m, description) ==
    push_history(m, Append(IF m.history_index < Len(m.history) - 1
                           THEN SubSeq(m.history, 1, m.history_index + 1)
                           ELSE m.history,
        [objects |-> save_scene(m), description |-> description]))

(* a call of _save_state, entered in the handler's call log *)
LogCall(m, n, description) ==
    [n EXCEPT !.calls = Append(@,
        [pre_history |-> m.history, pre_index |-> m.history_index,
         post_history |-> n.history, post_index |-> n.history_index,
         objects |-> save_scene(m), description |-> description])]
SaveState(m, description) ==
    LogCall(m, _save_state(m, description), description)

(* SceneManager.can_undo / can_redo *)
can_undo(m) == m.history_index > 0
can_redo(m) == m.history_index < Len(m.history) - 1

(* SceneManager._hex_to_rgb, on the values the model passes: a list of     *)
(* three numbers (here named by its text) is returned as it is            *)
_hex_to_rgb(hex_color) ==
    CASE hex_color = "[0.9, 0.9, 0.9]" -> <<900, 900, 900>>
      [] hex_color = "#FF0000" -> <<1000, 0, 0>>
      [] hex_color = "#00F" -> <<0, 0, 1000>>
      [] hex_color = "#CCCCCC" -> <<800, 800, 800>>
      [] OTHER -> <<1000, 1000, 1000>>

(* set_room_color, its branches on `component`, applied to the room r *)
OthersUnset(a, b, d) == a = NoColor /\ b = NoColor /\ d = NoColor
room_with_color_Shared(r, c, opacity, component) ==
    CASE component = "walls" ->
           [r EXCEPT !.wall_color = c, !.north_wall_color = NoColor,
                     !.south_wall_color = NoColor,
                     !.east_wall_color = NoColor,
                     !.west_wall_color = NoColor,
                     !.wall_opacity = opacity]
      [] component = "north_wall" ->
           [r EXCEPT !.north_wall_color = c, !.wall_color = c,
                     !.wall_opacity = opacity]
      [] component = "south_wall" ->
           [r EXCEPT !.south_wall_color = c, !.wall_color = c,
                     !.wall_opacity = opacity]
      [] component = "east_wall" ->
           [r EXCEPT !.east_wall_color = c, !.wall_color = c,
                     !.wall_opacity = opacity]
      [] component = "west_wall" ->
           [r EXCEPT !.west_wall_color = c, !.wall_color = c,
                     !.wall_opacity = opacity]
      [] component = "floor" ->
           [r EXCEPT !.floor_color = c, !.floor_opacity = opacity]
      [] component = "ceiling" ->
           [r EXCEPT !.ceiling_color = c, !.ceiling_opacity = opacity]
      [] OTHER -> r

room_with_color(r, c, opacity, component) ==
    CASE component = "walls" ->
           [r EXCEPT !.wall_color = c, !.north_wall_color = NoColor,
                     !.south_wall_color = NoColor,
                     !.east_wall_color = NoColor,
                     !.west_wall_color = NoColor,
                     !.wall_opacity = opacity]
      [] component = "north_wall" ->
           [r EXCEPT !.north_wall_color = c,
              !.wall_color = IF OthersUnset(r.south_wall_color, r.east_wall_color, r.west_wall_color) THEN c ELSE @,
              !.wall_opacity = opacity]
      [] component = "south_wall" ->
           [r EXCEPT !.south_wall_color = c,
              !.wall_color = IF OthersUnset(r.north_wall_color, r.east_wall_color, r.west_wall_color) THEN c ELSE @,
              !.wall_opacity = opacity]
      [] component = "east_wall" ->
           [r EXCEPT !.east_wall_color = c,
              !.wall_color = IF OthersUnset(r.north_wall_color, r.south_wall_color, r.west_wall_color) THEN c ELSE @,
              !.wall_opacity = opacity]
      [] component = "west_wall" ->
           [r EXCEPT !.west_wall_color = c,
              !.wall_color = IF OthersUnset(r.north_wall_color, r.south_wall_color, r.east_wall_color) THEN c ELSE @,
              !.wall_opacity = opacity]
      [] component = "floor" ->
           [r EXCEPT !.floor_color = c, !.floor_opacity = opacity]
      [] component = "ceiling" ->
           [r EXCEPT !.ceiling_color = c, !.ceiling_opacity = opacity]
      [] OTHER -> r

color_room(m, c, opacity, component) ==
    [m EXCEPT !.heap[m.room] = room_with_color(@, c, opacity, component)]

(* SceneManager.set_room_color(color_hex, opacity, component) *)
set_room_color(m, color_hex, opacity, component) ==
    IF m.room = None THEN m
    ELSE color_room(SaveState(m, <<"Change color", component>>),
                    _hex_to_rgb(color_hex), opacity, component)

(* set_room_interior_color, its branches on `component` and the sync of    *)
(* the exterior wall colour at its end, applied to the room r              *)
room_with_interior_color(r, c, opacity, component) ==
    LET r1 ==
          CASE component = "interior_walls" ->
                 [r EXCEPT !.interior_wall_color = c, !.wall_opacity = opacity]
            [] component = "interior_north_wall" ->
                 [r EXCEPT !.interior_north_wall_color = c, !.wall_opacity = opacity]
            [] component = "interior_south_wall" ->
                 [r EXCEPT !.interior_south_wall_color = c, !.wall_opacity = opacity]
            [] component = "interior_east_wall" ->
                 [r EXCEPT !.interior_east_wall_color = c, !.wall_opacity = opacity]
            [] component = "interior_west_wall" ->
                 [r EXCEPT !.interior_west_wall_color = c, !.wall_opacity = opacity]
            [] component = "interior_floor" ->
                 [r EXCEPT !.interior_floor_color = c, !.floor_opacity = opacity]
            [] component = "interior_ceiling" ->
                 [r EXCEPT !.interior_ceiling_color = c, !.ceiling_opacity = opacity]
            [] OTHER -> r
    IN  IF component = "interior_walls" /\ r.wall_color = <<900, 900, 900>>
        THEN [r1 EXCEPT !.wall_color = c]
        ELSE r1

(* SceneManager.set_room_interior_color(color_hex, opacity, component) *)
set_room_interior_color(m, color_hex, opacity, component) ==
    IF m.room = None THEN m
    ELSE [SaveState(m, <<"Change interior color", component>>)
          EXCEPT !.heap[m.room] = room_with_interior_color(@, _hex_to_rgb(color_hex), opacity, component)]

(* set_room: self.room = Room(...) *)
new_room(m, rec) ==
    [m EXCEPT !.heap = (NewRef(m.heap) :> rec) @@ @, !.room = NewRef(m.heap)]

(* SceneManager.set_room.  Its last line calls                             *)
(* set_room_color("wall", "#CCCCCC", [0.8, 0.8, 0.8]): the list lands in   *)
(* `component`, matches no branch, and only the snapshot is taken.         *)
set_room(m, name, width, length, height, room_type) ==
    set_room_color(
        new_room(IF m.room # None
                 THEN SaveState(m, <<"Change Room to", name>>) ELSE m,
                 Room(UUID, <<name>>, room_type, width, length, height,
                      <<0, 0, 0>>, <<0, 0, 0>>)),
        "wall", "#CCCCCC", "[0.8, 0.8, 0.8]")

(* clear_scene: the collections emptied, the id counter reset *)
cleared(m) ==
    [m EXCEPT !.doors = <<>>, !.windows = <<>>, !.furniture = <<>>,
              !.object_map = <<>>, !.selected_object = None, !.last_id = 0]

(* SceneManager.clear_scene *)
clear_scene(m) ==
    set_room(cleared(SaveState(m, <<"Clear Scene">>)),
             "Empty Room", 5000, 5000, 2500, "bedroom")

(* Furniture.add_adjustable_part: a new {min, max, current} dict *)
add_adjustable_part(m, f, part_name, min_value, max_value, current_value) ==
    [m EXCEPT
       !.parts = (NewRef(m.parts) :> [min |-> min_value, max |-> max_value,
                                      current |-> current_value]) @@ @,
       !.heap[f].adjustable_parts =
           [n \in (DOMAIN @) \cup {part_name} |->
               IF n = part_name THEN NewRef(m.parts) ELSE @[n]]]

(* Furniture.adjust_part: clamps and writes into the part dict in place *)
adjust_part(m, f, part_name, value) ==
    IF part_name \in DOMAIN m.heap[f].adjustable_parts
    THEN [m EXCEPT !.parts[m.heap[f].adjustable_parts[part_name]].current =
                       Max(m.parts[m.heap[f].adjustable_parts[part_name]].min,
                           Min(m.parts[m.heap[f].adjustable_parts[part_name]].max, value))]
    ELSE m

(* Furniture.from_dict: the object with its parts added one by one *)
RECURSIVE AddPartsFrom(_, _, _, _)
AddPartsFrom(m, f, part_data, names) ==
    IF names = {} THEN m
    ELSE LET n == CHOOSE x \in names : TRUE
         IN  AddPartsFrom(add_adjustable_part(m, f, n,
                              m.parts[part_data[n]].min,
                              m.parts[part_data[n]].max,
                              m.parts[part_data[n]].current),
                          f, part_data, names \ {n})

furniture_loaded(m, r, data) ==
    [m EXCEPT !.heap[r].scale = data.scale,
              !.heap[r].visible = data.visible,
              !.heap[r].selectable = data.selectable]

FurnitureFromDict(m, r, data) ==
    furniture_loaded(
        AddPartsFrom(
            [m EXCEPT !.heap = (r :>
               [Furniture(data.id, data.name, data.furniture_type, data.category, data.width, data.depth, data.height, data.position, data.rotation)
                  EXCEPT !.color = data.color,
                         !.material_type = IF data.material_type \in valid_materials
                                           THEN data.material_type ELSE "wood"]) @@ @],
            r, data.adjustable_parts, DOMAIN data.adjustable_parts),
        r, data)

(* the keys from_dict reads with data[...]: a missing one raises KeyError *)
RequiredKeys(type) ==
    CASE type = "Door" -> {"id", "name", "door_type", "width", "height"}
      [] type = "Window" -> {"id", "name", "window_type", "width", "height"}
      [] type = "Furniture" -> {"id", "name", "furniture_type", "category",
                                "width", "depth", "height"}
      [] OTHER -> {}

(* one turn of the loop of load_scene: the object made from `data` and     *)
(* entered under obj_id at the reference r                                 *)
load_object(m, obj_id, data, obj_type, r) ==
    CASE obj_type = "Room" ->
           [m EXCEPT !.heap = (r :> RoomFromDict(data)) @@ @,
                     !.room = r,
                     !.object_map = DictSet(@, obj_id, r)]
      [] obj_type = "Door" ->
           [m EXCEPT !.heap = (r :> DoorFromDict(data)) @@ @,
                     !.object_map = DictSet(@, obj_id, r),
                     !.doors = Append(@, r)]
      [] obj_type = "Window" ->
           [m EXCEPT !.heap = (r :> WindowFromDict(data)) @@ @,
                     !.object_map = DictSet(@, obj_id, r),
                     !.windows = Append(@, r)]
      [] obj_type = "Furniture" ->
           [FurnitureFromDict(m, r, data)
              EXCEPT !.object_map = DictSet(@, obj_id, r),
                     !.furniture = Append(@, r)]
      [] OTHER -> m

TypeOf(data) == IF "type" \in DOMAIN data THEN data.type ELSE "None"

(* a Python value that is not a dict is written [py_type |-> its type];    *)
(* .get on it raises AttributeError                                        *)
is_dict(v) == "py_type" \notin DOMAIN v

(* the values of a record that have not the type to_dict writes, by key    *)
py_types(data) == IF "py_types" \in DOMAIN data THEN data.py_types ELSE <<>>

(* the keys the constructors pass to float(): a value that is no number    *)
(* raises ValueError or TypeError                                          *)
FloatKeys(type) ==
    CASE type = "Door" -> {"width", "height", "thickness", "open_angle"}
      [] type = "Window" -> {"width", "height", "thickness",
                             "glass_transparency", "open_percentage"}
      [] type = "Furniture" -> {"width", "depth", "height"}
      [] OTHER -> {}
float_raises(data) ==
    \E k \in FloatKeys(TypeOf(data)) \cap DOMAIN py_types(data) :
        py_types(data)[k] \in {"str", "NoneType", "list"}

(* data.get("type") and from_dict(data) raise *)
from_dict_raises(data) ==
    \/ ~is_dict(data)
    \/ ~(RequiredKeys(TypeOf(data)) \subseteq DOMAIN data)
    \/ float_raises(data)

(* the loop of load_scene over object_data.items(), from item i on;        *)
(* ok = FALSE when from_dict raised, with the objects loaded before it     *)
RECURSIVE LoadObjects(_, _, _)
LoadObjects(m, objs, i) ==
    IF i > Len(objs) THEN [m |-> m, ok |-> TRUE]
    ELSE IF from_dict_raises(objs[i][2])
    THEN [m |-> m, ok |-> FALSE]
    ELSE LoadObjects(load_object(m, objs[i][1], objs[i][2],
                                 TypeOf(objs[i][2]), NewRef(m.heap)),
                     objs, i + 1)

(* load_scene after its loop: the default room, or the except branch *)
finish_load(res) ==
    IF res.ok
    THEN [m |-> IF res.m.room = None
                THEN set_room(res.m, "Living Room", 5000, 6000, 2500, "bedroom")
                ELSE res.m,
          ret |-> TRUE]
    ELSE [m |-> clear_scene(res.m), ret |-> FALSE]

unset_room(m) == [m EXCEPT !.room = None]

(* object_data = scene_data.get("objects", {}) and the loop over it *)
load_objects_of(m, scene_data) ==
    IF ~is_dict(scene_data) THEN [m |-> m, ok |-> FALSE]
    ELSE IF "objects" \notin DOMAIN scene_data THEN [m |-> m, ok |-> TRUE]
    ELSE LoadObjects(m, scene_data.objects, 1)

(* SceneManager.load_scene: [m, ret] *)
load_scene(m, scene_data) ==
    finish_load(load_objects_of(Collect(unset_room(clear_scene(m))), scene_data))

(* SceneManager.add_object: the next id, the typed list, the id index *)
add_object(m, r) ==
    [m EXCEPT !.last_id = @ + 1,
              !.heap[r].id = str(m.last_id),
              !.doors = IF m.heap[r].kind = "Door" THEN Append(@, r) ELSE @,
              !.windows = IF m.heap[r].kind = "Window" THEN Append(@, r) ELSE @,
              !.furniture = IF m.heap[r].kind = "Furniture" THEN Append(@, r) ELSE @,
              !.object_map = DictSet(@, str(m.last_id), r)]

(* add_door/add_window/add_furniture: the new object, then add_object *)
add_new(m, rec) ==
    add_object([m EXCEPT !.heap = (NewRef(m.heap) :> rec) @@ @], NewRef(m.heap))

(* add_door after its snapshot: the door on the west wall of the room *)
new_door(m, door_type, width, height, thickness) ==
    add_new(m, DoorSetThickness(
                 Door("door_n", <<door_type, Len(m.doors) + 1>>, door_type,
                      width, height,
                      IF m.room # None
                      THEN <<0 - (m.heap[m.room].width \div 2), height \div 2, 0>>
                      ELSE <<0, 0, 0>>,
                      IF m.room # None THEN <<0, 90 * Deg, 0>> ELSE <<0, 0, 0>>),
                 thickness))

(* SceneManager.add_door(door_type, width, height, thickness=...) *)
add_door(m, door_type, width, height, thickness) ==
    new_door(SaveState(m, <<"Add", door_type>>), door_type, width, height,
             thickness)

(* add_window after its snapshot: the window on the north wall *)
new_window(m, window_type, width, height) ==
    add_new(m, Window("window_n", <<window_type, Len(m.windows) + 1>>,
                      window_type, width, height,
                      IF m.room # None
                      THEN <<0, m.heap[m.room].height \div 2,
                             0 - (m.heap[m.room].length \div 2)>>
                      ELSE <<0, 0, 0>>,
                      <<0, 0, 0>>))

(* SceneManager.add_window(window_type, width, height) *)
add_window(m, window_type, width, height) ==
    new_window(SaveState(m, <<"Add", window_type>>), window_type, width, height)

(* the category add_furniture derives from the furniture type *)
CategoryOf(furniture_type) ==
    CASE furniture_type \in {"Dining Chair", "Office Chair", "Armchair"} -> "Chairs"
      [] furniture_type \in {"Dining Table", "Coffee Table", "Desk"} -> "Tables"
      [] furniture_type \in {"2-Seater Sofa", "3-Seater Sofa", "L-Shaped Sofa"} -> "Sofas"
      [] furniture_type \in {"Single Bed", "Double Bed", "King Size Bed"} -> "Beds"
      [] furniture_type \in {"Single Door Cupboard", "Double Door Cupboard", "Sliding Door Cupboard"} -> "Cupboards"
      [] OTHER -> "Miscellaneous"

(* add_furniture after its snapshot: the item at the centre of the floor *)
new_furniture(m, furniture_type, width, depth, height) ==
    add_new(m, Furniture("furniture_n", <<furniture_type, Len(m.furniture) + 1>>, furniture_type, CategoryOf(furniture_type), width, depth, height, <<0, height \div 2, 0>>, <<0, 0, 0>>))

(* SceneManager.add_furniture(furniture_type, width, depth, height) *)
add_furniture(m, furniture_type, width, depth, height) ==
    new_furniture(SaveState(m, <<"Add", furniture_type>>), furniture_type,
                  width, depth, height)

(* SceneManager.get_all_objects: room first, then doors, windows, furniture *)
get_all_objects(m) ==
    (IF m.room # None THEN <<m.room>> ELSE <<>>)
    \o m.doors \o m.windows \o m.furniture

(* pick_object: the pickable objects, the room left out *)
pickable_objects(m) ==
    LET IsPickable(x) == x # m.room
    IN  SelectSeq(get_all_objects(m), IsPickable)

pick_among_NoWrap(pickable, cycle, current_object) ==
    IF pickable = <<>> THEN None
    ELSE IF cycle /\ ListHas(pickable, current_object)
    THEN LET current_index ==
               CHOOSE i \in 1..Len(pickable) :
                   /\ pickable[i] = current_object
                   /\ \A j \in 1..(i - 1) : pickable[j] # current_object
         IN  pickable[Min(current_index + 1, Len(pickable))]
    ELSE pickable[1]

(* pick_object: the choice among the pickable objects *)
pick_among(pickable, cycle, current_object) ==
    IF pickable = <<>> THEN None
    ELSE IF cycle /\ ListHas(pickable, current_object)
    THEN LET current_index ==
               CHOOSE i \in 1..Len(pickable) :
                   /\ pickable[i] = current_object
                   /\ \A j \in 1..(i - 1) : pickable[j] # current_object
         IN  pickable[(current_index % Len(pickable)) + 1]
    ELSE pickable[1]

(* SceneManager.pick_object(x, y, cycle_selection, current_object) *)
pick_object(m, cycle, current_object) ==
    pick_among(pickable_objects(m), cycle, current_object)

select_Recording(m, obj) ==
    IF obj # None
    THEN [SaveState(m, <<"Select">>) EXCEPT !.selected_object = obj,
                                            !.heap[obj].is_selected = TRUE]
    ELSE [SaveState(m, <<"Select">>) EXCEPT !.selected_object = obj]

(* set_selected_object, its second half: the new selection *)
select(m, obj) ==
    IF obj # None
    THEN [m EXCEPT !.selected_object = obj, !.heap[obj].is_selected = TRUE]
    ELSE [m EXCEPT !.selected_object = obj]

set_selected_object_NoClear(m, obj) == select(m, obj)

(* SceneManager.set_selected_object *)
set_selected_object(m, obj) ==
    select(IF m.selected_object # None
           THEN [m EXCEPT !.heap[m.selected_object].is_selected = FALSE]
           ELSE m,
           obj)

(* cycle_selection once pick_object has chosen next_obj *)
cycle_to(m, next_obj) ==
    [m |-> IF next_obj # None THEN set_selected_object(m, next_obj) ELSE m,
     ret |-> next_obj]

(* SceneManager.cycle_selection: [m, ret] *)
cycle_selection(m) == cycle_to(m, pick_object(m, TRUE, m.selected_object))

(* the typed list of an object, with the object taken out if it is there *)
RemoveFromLists(m, obj) ==
    LET drop(list) == IF ListHas(list, obj) THEN ListRemove(list, obj) ELSE list
    IN  [m EXCEPT !.doors = IF m.heap[obj].kind = "Door" THEN drop(@) ELSE @,
                  !.windows = IF m.heap[obj].kind = "Window" THEN drop(@) ELSE @,
                  !.furniture = IF m.heap[obj].kind = "Furniture" THEN drop(@) ELSE @]

(* delete_selected_object, its end: the id index and the selection *)
forget_object(m, obj) ==
    IF DictHas(m.object_map, m.heap[obj].id)
    THEN [m |-> [m EXCEPT !.object_map = DictDel(@, m.heap[obj].id),
                          !.selected_object = None],
          ret |-> TRUE]
    ELSE [m |-> m, ret |-> FALSE]

delete_selected_object_NoRoomGuard(m) ==
    IF m.selected_object = None THEN [m |-> m, ret |-> FALSE]
    ELSE forget_object(
             RemoveFromLists(
                 SaveState(m, <<"Delete", m.heap[m.selected_object].name>>),
                 m.selected_object),
             m.selected_object)

(* SceneManager.delete_selected_object: [m, ret] *)
delete_selected_object(m) ==
    IF m.selected_object = None THEN [m |-> m, ret |-> FALSE]
    ELSE IF m.selected_object = m.room THEN [m |-> m, ret |-> FALSE]
    ELSE forget_object(
             RemoveFromLists(
                 SaveState(m, <<"Delete", m.heap[m.selected_object].name>>),
                 m.selected_object),
             m.selected_object)

(* remove_object, its end: the id index and the selection *)
unmap_object(m, object_id, obj) ==
    [m EXCEPT !.object_map = DictDel(@, object_id),
              !.selected_object = IF @ = obj THEN None ELSE @]

(* SceneManager.remove_object *)
remove_object(m, object_id) ==
    IF ~DictHas(m.object_map, object_id) THEN m
    ELSE unmap_object(RemoveFromLists(m, DictGet(m.object_map, object_id)),
                      object_id, DictGet(m.object_map, object_id))

(* SceneManager.delete_object: [m, ret] *)
delete_object(m, object_id) ==
    IF ~DictHas(m.object_map, object_id) THEN [m |-> m, ret |-> FALSE]
    ELSE IF DictGet(m.object_map, object_id) = m.room THEN [m |-> m, ret |-> FALSE]
    ELSE [m |-> remove_object(
                    SaveState(m, <<"Delete", m.heap[DictGet(m.object_map, object_id)].name>>),
                    object_id),
          ret |-> TRUE]

(* move_selected_object: the new position kept inside the room rm *)
clamp_to_room(rm, moved, margin) ==
    <<Max(0 - ((rm.width \div 2) - margin),
          Min((rm.width \div 2) - margin, moved[1])),
      Max(0, Min(rm.height - margin, moved[2])),
      Max(0 - ((rm.length \div 2) - margin),
          Min((rm.length \div 2) - margin, moved[3]))>>

(* SceneManager.move_selected_object: [m, ret] *)
move_selected_object(m, dx, dy, dz) ==
    IF m.selected_object = None \/ m.selected_object = m.room
    THEN [m |-> m, ret |-> FALSE]
    ELSE
    [m |-> SaveState(
             [m EXCEPT !.heap[m.selected_object].position =
                 IF m.room # None
                 THEN clamp_to_room(m.heap[m.room],
                                    <<@[1] + dx, @[2] + dy, @[3] + dz>>, 100)
                 ELSE <<@[1] + dx, @[2] + dy, @[3] + dz>>],
             <<"Move", m.heap[m.selected_object].name>>),
     ret |-> TRUE]

(* the spacing of the float32 values around an angle a >= 0 *)
float32_grid(a) ==
    IF a < 128 * Deg THEN 1
    ELSE IF a < 256 * Deg THEN 2
    ELSE IF a < 512 * Deg THEN 4 ELSE 8

(* the multiple of g nearest to a >= 0, a tie going to the even multiple *)
float32_round(a, g) ==
    IF 2 * (a % g) < g THEN (a \div g) * g
    ELSE IF 2 * (a % g) > g THEN ((a \div g) + 1) * g
    ELSE IF (a \div g) % 2 = 0 THEN (a \div g) * g
    ELSE ((a \div g) + 1) * g

(* np.float32 of an angle *)
float32_angle(a) ==
    IF a < 0 THEN 0 - float32_round(0 - a, float32_grid(0 - a))
    ELSE float32_round(a, float32_grid(a))

(* the scalar promotion of NumPy in force: current_rot[i] + d is a float64  *)
(* under value-based casting and a float32 under NEP 50                     *)
NumpyPromotion == {"float64", "float32"}

(* (current_rot[i] + d) % 360, stored in a float32 array *)
turned(c, d, promote) ==
    float32_angle((IF promote = "float32" THEN float32_angle(c + d) ELSE c + d)
                  % (360 * Deg))

(* SceneManager.rotate_selected_object: [m, ret] *)
rotate_selected_object(m, dx, dy, dz, promote) ==
    IF m.selected_object = None \/ m.selected_object = m.room
    THEN [m |-> m, ret |-> FALSE]
    ELSE
    [m |-> SaveState(
             [m EXCEPT !.heap[m.selected_object].rotation =
                 <<turned(@[1], dx, promote), turned(@[2], dy, promote),
                   turned(@[3], dz, promote)>>],
             <<"Rotate", m.heap[m.selected_object].name>>),
     ret |-> TRUE]

(* np.linalg.norm(old_pos - new_pos) > 0.01, in millimetres *)
moved_far(a, b) ==
    ((a[1] - b[1]) * (a[1] - b[1])) + ((a[2] - b[2]) * (a[2] - b[2]))
        + ((a[3] - b[3]) * (a[3] - b[3])) > 100

(* SceneManager.set_selected_object_position: [m, ret]; no clamping *)
set_selected_object_position(m, x, y, z) ==
    IF m.selected_object = None \/ m.selected_object = m.room
    THEN [m |-> m, ret |-> FALSE]
    ELSE IF moved_far(m.heap[m.selected_object].position, <<x, y, z>>)
    THEN [m |-> SaveState([m EXCEPT !.heap[m.selected_object].position = <<x, y, z>>],
                          <<"Move", m.heap[m.selected_object].name>>),
          ret |-> TRUE]
    ELSE [m |-> [m EXCEPT !.heap[m.selected_object].position = <<x, y, z>>],
          ret |-> TRUE]

(* np.linalg.norm(old_rot - new_rot) > 0.1: 0.1 degree is 13107.2 counts   *)
(* and its square 171798691.84                                             *)
Abs(a) == IF a < 0 THEN 0 - a ELSE a
turned_far(a, b) ==
    \/ \E i \in 1..3 : Abs(a[i] - b[i]) > 13107
    \/ ((a[1] - b[1]) * (a[1] - b[1])) + ((a[2] - b[2]) * (a[2] - b[2]))
          + ((a[3] - b[3]) * (a[3] - b[3])) > 171798691

(* the rotation np.array([x, y, z], dtype=np.float32) *)
float32_rotation(x, y, z) == <<float32_angle(x), float32_angle(y), float32_angle(z)>>

(* SceneManager.set_selected_object_rotation: [m, ret]; no modulo *)
set_selected_object_rotation(m, x, y, z) ==
    IF m.selected_object = None \/ m.selected_object = m.room
    THEN [m |-> m, ret |-> FALSE]
    ELSE IF turned_far(m.heap[m.selected_object].rotation, float32_rotation(x, y, z))
    THEN [m |-> SaveState([m EXCEPT !.heap[m.selected_object].rotation = float32_rotation(x, y, z)],
                          <<"Rotate", m.heap[m.selected_object].name>>),
          ret |-> TRUE]
    ELSE [m |-> [m EXCEPT !.heap[m.selected_object].rotation = float32_rotation(x, y, z)],
          ret |-> TRUE]

(* set_object_color after its snapshot: only Door and Furniture have a     *)
(* `color` attribute; no entity has `opacity`                              *)
paint(m, obj, color_hex) ==
    IF m.heap[obj].kind \in {"Door", "Furniture"}
    THEN [m EXCEPT !.heap[obj].color = _hex_to_rgb(color_hex)]
    ELSE m

(* SceneManager.set_object_color(obj, color_hex): [m, ret] *)
set_object_color(m, obj, color_hex) ==
    IF obj = None THEN [m |-> m, ret |-> FALSE]
    ELSE [m |-> paint(SaveState(m, <<"Change object color", m.heap[obj].name, color_hex>>),
                      obj, color_hex),
          ret |-> TRUE]

(* str.lower(), on the type names the model passes *)
lower(obj_type) ==
    CASE obj_type = "Door" -> "door"
      [] obj_type = "Furniture" -> "furniture"
      [] OTHER -> obj_type

(* set_color_by_type after its snapshot: the objects of the list get the   *)
(* colour when they have a `color` attribute (windows have none)           *)
RECURSIVE paint_all(_, _, _)
paint_all(m, list, color_hex) ==
    IF list = <<>> THEN m
    ELSE paint_all(paint(m, Head(list), color_hex), Tail(list), color_hex)

(* SceneManager.set_color_by_type(obj_type, color_hex): [m, ret], ret the  *)
(* number of objects counted                                               *)
set_color_by_type(m, obj_type, color_hex) ==
    LET list == CASE lower(obj_type) = "door" -> m.doors
                  [] lower(obj_type) = "window" -> m.windows
                  [] lower(obj_type) = "furniture" -> m.furniture
                  [] OTHER -> <<>>
    IN  [m |-> paint_all(SaveState(m, <<"Change all colors", obj_type, color_hex>>),
                         list, color_hex),
         ret |-> <<"int", Len(list)>>]

(* the value of an undo or redo that raised IndexError *)
IndexError == <<"IndexError">>

(* undo, its return: self.history[self.history_index + 1]["description"]   *)
(* read after load_scene has run                                           *)
undo_return(m) ==
    [m |-> m,
     ret |-> IF m.history_index + 1 < Len(m.history)
             THEN m.history[m.history_index + 2].description
             ELSE IndexError]

(* undo from the cursor moved back: the snapshot there is loaded *)
undo_load(m) == undo_return(load_scene(m, m.history[m.history_index + 1]).m)

(* SceneManager.undo: [m, ret]; ret is the description, <<>> for "" *)
undo(m) ==
    IF ~can_undo(m) THEN [m |-> m, ret |-> <<>>]
    ELSE undo_load([m EXCEPT !.history_index = @ - 1])

(* redo from the cursor moved forward *)
redo_load(m, next_state) ==
    [m |-> load_scene(m, next_state).m, ret |-> next_state.description]

(* SceneManager.redo: [m, ret] *)
redo(m) ==
    IF ~can_redo(m) THEN [m |-> m, ret |-> <<>>]
    ELSE redo_load([m EXCEPT !.history_index = @ + 1],
                   m.history[m.history_index + 2])

(* SceneManager.__init__ *)
EmptyManager ==
    [room |-> None, doors |-> <<>>, windows |-> <<>>, furniture |-> <<>>,
     selected_object |-> None, last_id |-> 0, object_map |-> <<>>,
     history |-> <<>>, history_index |-> 0 - 1, heap |-> <<>>,
     parts |-> <<>>, calls |-> <<>>]

NewSceneManager ==
    [set_room(EmptyManager, "Living Room", 5000, 6000, 2500, "bedroom")
       EXCEPT !.history = <<>>, !.history_index = 0 - 1, !.calls = <<>>]


(* ------------------------------ renderer ------------------------------- *)
(* the key of an object in Renderer.mesh_cache: the f-string                *)
(* "room_{width}_{length}_{height}", "door_{door_type}_{width}_{height}_    *)
(* {thickness}", "window_{window_type}_{width}_{height}" or "furniture_     *)
(* {furniture_type}_{width}_{depth}_{height}", as its prefix, the type and  *)
(* the numbers it is built from                                             *)
mesh_key(o) ==
    CASE o.kind = "Room" ->
           [prefix |-> "room", type |-> "", dims |-> <<o.width, o.length, o.height>>]
      [] o.kind = "Door" ->
           [prefix |-> "door", type |-> o.door_type,
            dims |-> <<o.width, o.height, o.thickness>>]
      [] o.kind = "Window" ->
           [prefix |-> "window", type |-> o.window_type,
            dims |-> <<o.width, o.height>>]
      [] o.kind = "Furniture" ->
           [prefix |-> "furniture", type |-> o.furniture_type,
            dims |-> <<o.width, o.depth, o.height>>]

(* the mesh the mesh factory builds for an object, as the arguments of      *)
(* create_room_mesh, create_door_mesh, create_window_mesh or                *)
(* create_furniture_mesh                                                    *)
create_mesh(o) ==
    CASE o.kind = "Room" ->
           [mesh |-> "room", type |-> "", args |-> <<o.width, o.length, o.height>>]
      [] o.kind = "Door" ->
           [mesh |-> "door", type |-> o.door_type,
            args |-> <<o.width, o.height, o.thickness>>]
      [] o.kind = "Window" ->
           [mesh |-> "window", type |-> o.window_type,
            args |-> <<o.width, o.height, o.thickness, o.segments>>]
      [] o.kind = "Furniture" ->
           [mesh |-> "furniture", type |-> o.furniture_type,
            args |-> <<o.width, o.depth, o.height>>]

(* render_room, render_object, render_transparent_object: the mesh is built *)
(* when its key is not in the cache                                         *)
cached(cache, o) ==
    IF DictHas(cache, mesh_key(o)) THEN cache
    ELSE DictSet(cache, mesh_key(o), create_mesh(o))

(* Renderer.render: the room, then the doors and furniture, then the        *)
(* windows (every object of the model is visible)                           *)
RECURSIVE render_all(_, _, _)
render_all(m, cache, list) ==
    IF list = <<>> THEN cache
    ELSE render_all(m, cached(cache, m.heap[Head(list)]), Tail(list))
render(m, cache) ==
    render_all(m, cache,
               (IF m.room # None THEN <<m.room>> ELSE <<>>)
               \o m.doors \o m.furniture \o m.windows)
(* ------------------------------ the state ------------------------------ *)
VARIABLES room, doors, windows, furniture, selected_object, last_id,
          object_map, history, history_index, heap, parts,
          calls,    \* the _save_state calls of the last handler
          op,       \* the last handler called, with its arguments
          prevOp,   \* the handler called before it
          ret,      \* what the last handler returned (IndexError: it raised)
          pre,      \* the manager as it was before the last handler
          pre2,     \* the manager as it was before the last two handlers
          rt,       \* the run of mutations, undos and redos in progress
          steps,    \* handlers called so far
          mesh_cache \* the meshes of the renderer, by cache key

vars == <<room, doors, windows, furniture, selected_object, last_id,
          object_map, history, history_index, heap, parts, calls, op,
          prevOp, ret, pre, pre2, rt, steps, mesh_cache>>

(* the manager of the current state *)
M ==
    [room |-> room, doors |-> doors, windows |-> windows,
     furniture |-> furniture, selected_object |-> selected_object,
     last_id |-> last_id, object_map |-> object_map, history |-> history,
     history_index |-> history_index, heap |-> heap, parts |-> parts,
     calls |-> calls]

(* the manager a handler starts from: its call log is empty *)
Begin == [M EXCEPT !.calls = <<>>]

SetManager(m) ==
    /\ room' = m.room /\ doors' = m.doors /\ windows' = m.windows
    /\ furniture' = m.furniture /\ selected_object' = m.selected_object
    /\ last_id' = m.last_id /\ object_map' = m.object_map
    /\ history' = m.history /\ history_index' = m.history_index
    /\ heap' = m.heap /\ parts' = m.parts /\ calls' = m.calls

Bool(b) == IF b THEN <<"True">> ELSE <<"False">>

Mutations == {"add_door", "add_window", "add_furniture", "delete_selected_object",
              "delete_object", "move_selected_object", "rotate_selected_object",
              "set_object_color", "set_room"}

NoRun == [n |-> 0, u |-> 0, r |-> 0, mark |-> <<>>, parts |-> <<>>]

(* rt counts a run of n recorded mutations followed by u undos followed by *)
(* r redos; mark is save_scene() right after the last of the mutations     *)
NextRun(o, r, m) ==
    IF o[1] \in Mutations /\ r # <<"False">>
    THEN [n |-> IF rt.u = 0 /\ rt.r = 0 THEN rt.n + 1 ELSE 1, u |-> 0, r |-> 0,
          mark |-> save_scene(m), parts |-> m.parts]
    ELSE IF o[1] = "undo" /\ rt.n > rt.u /\ rt.r = 0
    THEN [rt EXCEPT !.u = @ + 1]
    ELSE IF o[1] = "redo" /\ rt.u > rt.r
    THEN [rt EXCEPT !.r = @ + 1]
    ELSE NoRun

(* a handler was called: the manager it leaves, what it returned *)
CommitScene(o, m, r) ==
    /\ SetManager(m)
    /\ op' = o /\ prevOp' = op /\ ret' = r
    /\ pre' = M /\ pre2' = pre
    /\ rt' = NextRun(o, r, m)
    /\ steps' = steps + 1

(* a handler of the scene manager: the renderer is not called *)
Commit(o, m, r) == CommitScene(o, m, r) /\ UNCHANGED mesh_cache

Done(o, m, r) == Commit(o, Collect(m), r)
DoneBool(o, res) == Done(o, res.m, Bool(res.ret))
DoneRet(o, res) == Done(o, res.m, res.ret)
DoneObj(o, res) == Done(o, res.m, <<"obj", res.ret>>)

InitManager == Collect(NewSceneManager)

Init ==
    \E m \in {InitManager} :
        /\ room = m.room /\ doors = m.doors
        /\ windows = m.windows /\ furniture = m.furniture
        /\ selected_object = m.selected_object
        /\ last_id = m.last_id /\ object_map = m.object_map
        /\ history = m.history /\ history_index = m.history_index
        /\ heap = m.heap /\ parts = m.parts /\ calls = m.calls
        /\ op = <<"__init__">> /\ prevOp = <<"__init__">> /\ ret = <<>>
        /\ pre = m /\ pre2 = m
        /\ rt = NoRun
        /\ steps = 0
        /\ mesh_cache = <<>>

(* ------------------------------- inputs -------------------------------- *)
DoorTypes == {"Single Door"}
WindowTypes == {"Single Window", "Bay Window"}
FurnitureTypes == {"Dining Chair"}
MoveDeltas == {<<100, 0, 100>>}
RotateDeltas == {<<0, 15 * Deg, 0>>}
(* a rotation by one count backwards and by half a degree *)
FineRotateDeltas == {<<0 - 1, 0, 0>>, <<0, 0 - (Deg \div 2), 0>>}

(* a scene file written by hand, with its room in it *)
ExternalScene ==
    [objects |->
       << <<"room_1", RoomToDict(Room("room_1", <<"Studio">>, "studio", 4000, 4000, 3000, <<0, 0, 0>>, <<0, 0, 0>>))>>,
          <<"0", DoorToDict(Door("0", <<"Single Door", 1>>, "Single Door", 900, 2000, <<0 - 2000, 1000, 0>>, <<0, 90 * Deg, 0>>))>> >>]

(* ------------------------------- actions ------------------------------- *)
AddDoor ==
    /\ Len(doors) < MaxDoors
    /\ \E t \in DoorTypes :
         Done(<<"add_door", t>>, add_door(Begin, t, 900, 2000, 50), <<"Door">>)

AddWindow ==
    /\ Len(windows) < MaxWindows
    /\ \E t \in WindowTypes :
         Done(<<"add_window", t>>, add_window(Begin, t, 1200, 1000), <<"Window">>)

AddFurniture ==
    /\ Len(furniture) < MaxFurniture
    /\ \E t \in FurnitureTypes :
         Done(<<"add_furniture", t>>, add_furniture(Begin, t, 500, 500, 900), <<"Furniture">>)

SetSelectedObject ==
    \E obj \in SeqRange(get_all_objects(M)) \cup {None} :
        Done(<<"set_selected_object", obj>>, set_selected_object(Begin, obj), <<>>)

CycleSelection ==
    DoneObj(<<"cycle_selection">>, cycle_selection(Begin))

DeleteSelectedObject ==
    DoneBool(<<"delete_selected_object">>, delete_selected_object(Begin))

(* delete_object by a key of the id index or by the id of the room *)
DeleteObject ==
    \E k \in DictKeys(object_map) \cup {heap[room].id} :
        DoneBool(<<"delete_object", k>>, delete_object(Begin, k))

MoveSelectedObject ==
    \E d \in MoveDeltas :
        DoneBool(<<"move_selected_object", d>>,
                 move_selected_object(Begin, d[1], d[2], d[3]))

RotateSelectedObject ==
    \E d \in RotateDeltas : \E promote \in NumpyPromotion :
        DoneBool(<<"rotate_selected_object", d>>,
                 rotate_selected_object(Begin, d[1], d[2], d[3], promote))

RotateSelectedObjectFine ==
    \E d \in FineRotateDeltas : \E promote \in NumpyPromotion :
        DoneBool(<<"rotate_selected_object", d>>,
                 rotate_selected_object(Begin, d[1], d[2], d[3], promote))

SetObjectColor ==
    DoneBool(<<"set_object_color", selected_object, "#FF0000">>,
             set_object_color(Begin, selected_object, "#FF0000"))

SetRoom ==
    Done(<<"set_room", "Kitchen">>, set_room(Begin, "Kitchen", 4000, 4000, 3000, "bedroom"), <<"Room">>)

ClearScene ==
    Done(<<"clear_scene">>, clear_scene(Begin), <<>>)

(* save_scene() and load_scene() of what it returned *)
SaveAndLoad ==
    DoneBool(<<"load_scene", "saved">>,
             load_scene(Begin, [objects |-> save_scene(M)]))

LoadExternal ==
    DoneBool(<<"load_scene", "external">>, load_scene(Begin, ExternalScene))

(* set_selected_object_position(x, y, z): a place in the room, and one 5 mm *)
(* from where add_door puts a door                                         *)
Positions == {<<1000, 0, 1000>>, <<0 - 2500, 1005, 0>>}

SetSelectedObjectPosition ==
    \E p \in Positions :
        DoneBool(<<"set_selected_object_position", p>>,
                 set_selected_object_position(Begin, p[1], p[2], p[3]))

(* set_selected_object_rotation(x, y, z): 45 degrees, and 6000 counts (less *)
(* than 0.05 degree) from the rotation add_door gives a door                *)
Rotations == {<<0, 45 * Deg, 0>>, <<0, (90 * Deg) + 6000, 0>>}

SetSelectedObjectRotation ==
    \E r \in Rotations :
        DoneBool(<<"set_selected_object_rotation", r>>,
                 set_selected_object_rotation(Begin, r[1], r[2], r[3]))

(* scene_data that to_dict never wrote *)
SavedDoor(id) ==
    DoorToDict(Door(id, <<"Single Door", 1>>, "Single Door", 900, 2000, <<0 - 2000, 1000, 0>>, <<0, 90 * Deg, 0>>))

MalformedScenes ==
    {<<"None", [py_type |-> "NoneType"]>>,
     <<"record is a str",
       [objects |-> << <<"0", SavedDoor("0")>>, <<"1", [py_type |-> "str"]>> >>]>>,
     <<"width missing",
       [objects |-> << <<"0", SavedDoor("0")>>,
                       <<"1", Restrict(SavedDoor("1"), DOMAIN SavedDoor("1") \ {"width"})>> >>]>>,
     <<"width is a str",
       [objects |-> << <<"0", SavedDoor("0")>>,
                       <<"1", SavedDoor("1") @@ [py_types |-> [width |-> "str"]]>> >>]>>,
     <<"type missing",
       [objects |-> << <<"0", Restrict(SavedDoor("0"), DOMAIN SavedDoor("0") \ {"type"})>> >>]>>,
     <<"name is an int",
       [objects |-> << <<"0", [SavedDoor("0") EXCEPT !.name = <<7>>] @@ [py_types |-> [name |-> "int"]]>> >>]>>}

LoadMalformed ==
    \E s \in MalformedScenes :
        DoneBool(<<"load_scene", "malformed", s[1]>>, load_scene(Begin, s[2]))

(* set_room_color(color_hex, opacity, component) *)
RoomColors == {<<"#FF0000", 1000>>, <<"#00F", 500>>}
RoomComponents == {"walls", "north_wall", "south_wall", "east_wall", "floor"}

SetRoomColor ==
    \E c \in RoomColors : \E component \in RoomComponents :
        Done(<<"set_room_color", c[1], c[2], component>>,
             set_room_color(Begin, c[1], c[2], component), <<>>)

Undo == DoneRet(<<"undo">>, undo(Begin))

Redo == DoneRet(<<"redo">>, redo(Begin))

AddAdjustablePart ==
    \E i \in 1..Len(furniture) :
        /\ heap[furniture[i]].adjustable_parts = <<>>
        /\ Done(<<"add_adjustable_part", furniture[i]>>,
                add_adjustable_part(Begin, furniture[i], "seat_height", 400, 600, 500), <<>>)

AdjustPart ==
    \E i \in 1..Len(furniture) : \E v \in {450, 700} :
        Done(<<"adjust_part", furniture[i], v>>,
             adjust_part(Begin, furniture[i], "seat_height", v),
             Bool("seat_height" \in DOMAIN heap[furniture[i]].adjustable_parts))

Next ==
    \/ steps < MaxSteps /\ AddDoor
    \/ steps < MaxSteps /\ AddWindow
    \/ steps < MaxSteps /\ AddFurniture
    \/ steps < MaxSteps /\ SetSelectedObject
    \/ steps < MaxSteps /\ CycleSelection
    \/ steps < MaxSteps /\ DeleteSelectedObject
    \/ steps < MaxSteps /\ DeleteObject
    \/ steps < MaxSteps /\ MoveSelectedObject
    \/ steps < MaxSteps /\ RotateSelectedObject
    \/ steps < MaxSteps /\ SetObjectColor
    \/ steps < MaxSteps /\ SetRoom
    \/ steps < MaxSteps /\ ClearScene
    \/ steps < MaxSteps /\ SaveAndLoad
    \/ steps < MaxSteps /\ LoadExternal
    \/ steps < MaxSteps /\ Undo
    \/ steps < MaxSteps /\ Redo
    \/ steps < MaxSteps /\ AddAdjustablePart
    \/ steps < MaxSteps /\ AdjustPart

Spec == Init /\ [][Next]_vars

(* the history engine alone, driven far enough to fill the history *)
NextHist ==
    \/ steps < MaxHistSteps /\ AddFurniture
    \/ steps < MaxHistSteps /\ SetRoom
    \/ steps < MaxHistSteps /\ ClearScene
    \/ steps < MaxHistSteps /\ Undo
    \/ steps < MaxHistSteps /\ Redo

SpecHist == Init /\ [][NextHist]_vars

(* the handlers of the end-to-end scenario, from the constructed scene *)
NextE2E ==
    \/ steps < MaxE2ESteps /\ AddDoor
    \/ steps < MaxE2ESteps /\ AddWindow
    \/ steps < MaxE2ESteps /\ AddFurniture
    \/ steps < MaxE2ESteps /\ SetSelectedObject
    \/ steps < MaxE2ESteps /\ MoveSelectedObject
    \/ steps < MaxE2ESteps /\ Undo

SpecE2E == Init /\ [][NextE2E]_vars


(* the handlers that edit the selected object *)
NextEdit ==
    \/ steps < MaxEditSteps /\ AddDoor
    \/ steps < MaxEditSteps /\ SetSelectedObject
    \/ steps < MaxEditSteps /\ SetRoom
    \/ steps < MaxEditSteps /\ MoveSelectedObject
    \/ steps < MaxEditSteps /\ RotateSelectedObject
    \/ steps < MaxEditSteps /\ RotateSelectedObjectFine
    \/ steps < MaxEditSteps /\ SetSelectedObjectPosition
    \/ steps < MaxEditSteps /\ SetSelectedObjectRotation
    \/ steps < MaxEditSteps /\ DeleteSelectedObject

SpecEdit == Init /\ [][NextEdit]_vars

(* the colours of the room *)
NextColor ==
    \/ steps < MaxColorSteps /\ SetRoomColor
    \/ steps < MaxColorSteps /\ SetRoom
    \/ steps < MaxColorSteps /\ Undo

SpecColor == Init /\ [][NextColor]_vars

(* load_scene on scene_data that save_scene did not write *)
NextLoad ==
    \/ steps < MaxLoadSteps /\ AddDoor
    \/ steps < MaxLoadSteps /\ SetSelectedObject
    \/ steps < MaxLoadSteps /\ LoadMalformed

SpecLoad == Init /\ [][NextLoad]_vars

(* picking among the entities of the scene *)
NextPick ==
    \/ steps < MaxPickSteps /\ AddDoor
    \/ steps < MaxPickSteps /\ AddWindow
    \/ steps < MaxPickSteps /\ AddFurniture
    \/ steps < MaxPickSteps /\ SetSelectedObject
    \/ steps < MaxPickSteps /\ CycleSelection
    \/ steps < MaxPickSteps /\ DeleteSelectedObject

SpecPick == Init /\ [][NextPick]_vars

(* ---------- dimensions given to the constructors and the setters --------- *)
(* widths, heights, depths and thicknesses in millimetres: below, at and    *)
(* above each of the minima the classes use                                 *)
DimValues == {0 - 500, 10, 50, 100, 500, 600, 1000, 1800, 3000}
DimOthers == {0, 3000}

(* the dimension attributes that have a setter, by class *)
DimAttrs(kind) ==
    CASE kind = "Room" -> {"width", "length", "height"}
      [] kind = "Door" -> {"width", "height", "thickness"}
      [] kind = "Window" -> {"width", "height", "thickness"}
      [] kind = "Furniture" -> {"width", "depth", "height"}

(* obj.<attr> = value on an object of the scene *)
set_dimension(o, attr, value) ==
    CASE o.kind = "Room" -> RoomSetDimension(o, attr, value)
      [] o.kind = "Door" -> DoorSetDimension(o, attr, value)
      [] o.kind = "Window" -> WindowSetDimension(o, attr, value)
      [] o.kind = "Furniture" -> FurnitureSetDimension(o, attr, value)

AddDoorDims ==
    /\ Len(doors) < MaxDoors
    /\ \E v \in DimValues : \E u \in DimOthers :
         Done(<<"add_door", "Single Door", v, u, v>>,
              add_door(Begin, "Single Door", v, u, v), <<"Door">>)

AddWindowDims ==
    /\ Len(windows) < MaxWindows
    /\ \E v \in DimValues : \E u \in DimOthers :
         Done(<<"add_window", "Single Window", v, u>>,
              add_window(Begin, "Single Window", v, u), <<"Window">>)

AddFurnitureDims ==
    /\ Len(furniture) < MaxFurniture
    /\ \E v \in DimValues : \E u \in DimOthers :
         Done(<<"add_furniture", "Desk", v, u, v>>,
              add_furniture(Begin, "Desk", v, u, v), <<"Furniture">>)

SetRoomDims ==
    \E v \in DimValues : \E u \in DimOthers :
        Done(<<"set_room", "Kitchen", v, u, v>>,
             set_room(Begin, "Kitchen", v, u, v, "kitchen"), <<"Room">>)

(* the i-th object of get_all_objects() gets one of its dimensions set *)
SetDimension ==
    \E i \in 1..Len(get_all_objects(M)) :
      \E attr \in DimAttrs(heap[get_all_objects(M)[i]].kind) :
        \E v \in DimValues :
          Done(<<"setattr", i, attr, v>>,
               [Begin EXCEPT !.heap[get_all_objects(M)[i]] = set_dimension(@, attr, v)],
               <<>>)

NextDim ==
    \/ steps < MaxDimSteps /\ AddDoorDims
    \/ steps < MaxDimSteps /\ AddWindowDims
    \/ steps < MaxDimSteps /\ AddFurnitureDims
    \/ steps < MaxDimSteps /\ SetRoomDims
    \/ steps < MaxDimSteps /\ SetDimension

SpecDim == Init /\ [][NextDim]_vars

(* ------------------- colours of the objects and the room ----------------- *)
(* set_room_color(color_hex, opacity, component): a colour as a hex string  *)
(* or as a list, an opacity inside or outside 0.0-1.0                       *)
PaintColors == {"#FF0000", "[0.9, 0.9, 0.9]"}
PaintOpacities == {500, 1500, 0 - 200}
PaintComponents == {"walls", "floor", "ceiling"}
InteriorComponents ==
    {"interior_walls", "interior_north_wall", "interior_floor", "skirting"}
PaintTypes == {"door", "Furniture", "window", "room"}

SetRoomColorAny ==
    \E c \in PaintColors : \E o \in PaintOpacities : \E component \in PaintComponents :
        Done(<<"set_room_color", c, o, component>>,
             set_room_color(Begin, c, o, component), <<>>)

SetRoomInteriorColor ==
    \E c \in PaintColors : \E o \in PaintOpacities : \E component \in InteriorComponents :
        Done(<<"set_room_interior_color", c, o, component>>,
             set_room_interior_color(Begin, c, o, component), <<>>)

SetColorByType ==
    \E t \in PaintTypes :
        DoneRet(<<"set_color_by_type", t, "#FF0000">>,
                set_color_by_type(Begin, t, "#FF0000"))

NextPaint ==
    \/ steps < MaxPaintSteps /\ AddDoor
    \/ steps < MaxPaintSteps /\ AddFurniture
    \/ steps < MaxPaintSteps /\ SetSelectedObject
    \/ steps < MaxPaintSteps /\ SetObjectColor
    \/ steps < MaxPaintSteps /\ SetColorByType
    \/ steps < MaxPaintSteps /\ SetRoomColorAny
    \/ steps < MaxPaintSteps /\ SetRoomInteriorColor

SpecPaint == Init /\ [][NextPaint]_vars

(* ------------------------------ rendering -------------------------------- *)
(* a frame: Renderer.render() on the scene as it is *)
Render ==
    /\ CommitScene(<<"render">>, Collect(Begin), <<>>)
    /\ mesh_cache' = render(M, mesh_cache)

NextRender ==
    \/ steps < MaxRenderSteps /\ AddDoor
    \/ steps < MaxRenderSteps /\ AddWindow
    \/ steps < MaxRenderSteps /\ AddFurniture
    \/ steps < MaxRenderSteps /\ SetDimension
    \/ steps < MaxRenderSteps /\ SaveAndLoad
    \/ steps < MaxRenderSteps /\ Render

SpecRender == Init /\ [][NextRender]_vars
(* ------------------------------ properties ----------------------------- *)
(* a serialized entity with its adjustable parts read through the part     *)
(* dicts it refers to, selection flag left aside                           *)
ResolveDict(d, ps) ==
    IF d.type = "Furniture"
    THEN [d EXCEPT !.adjustable_parts = [n \in DOMAIN @ |-> ps[@[n]]],
                   !.is_selected = FALSE]
    ELSE [d EXCEPT !.is_selected = FALSE]

(* the content of a save_scene() record: its id -> attributes pairs *)
Resolve(objects, ps) ==
    {<<objects[i][1], ResolveDict(objects[i][2], ps)>> : i \in 1..Len(objects)}

SceneOf(m) == Resolve(save_scene(m), m.parts)

(* the typed collections and the id index of a manager, by content *)
ListOf(m, list) ==
    [i \in 1..Len(list) |-> ResolveDict(to_dict(m.heap[list[i]]), m.parts)]
View(m) ==
    [doors |-> ListOf(m, m.doors), windows |-> ListOf(m, m.windows),
     furniture |-> ListOf(m, m.furniture), index |-> SceneOf(m)]

(* the attributes of the room that a scene file carries *)
RoomOf(m) ==
    IF m.room = None THEN <<>>
    ELSE [k \in {"name", "room_type", "width", "length", "height",
                 "wall_color", "north_wall_color", "south_wall_color",
                 "east_wall_color", "west_wall_color", "floor_color",
                 "ceiling_color", "wall_opacity", "floor_opacity",
                 "ceiling_opacity"} |-> m.heap[m.room][k]]

Descriptions(h) == [i \in 1..Len(h) |-> h[i].description]
Adds == {"add_door", "add_window", "add_furniture"}

(* C1: after N recorded mutations (1 <= N <= 20), N calls of undo and then *)
(* N calls of redo, save_scene() equals the save_scene() taken right after *)
(* the N mutations.                                                        *)
C1_UndoRedoRoundTrip ==
    (rt.n >= 1 /\ rt.n <= max_history /\ rt.u = rt.n /\ rt.r = rt.n)
        => SceneOf(M) = Resolve(rt.mark, rt.parts)

(* C2: add_door, add_window or add_furniture followed at once by undo      *)
(* leaves the typed collections and the id index as they were before the   *)
(* add, also when the add is the first mutation of a constructed scene.    *)
C2_AddThenUndo ==
    (op[1] = "undo" /\ prevOp[1] \in Adds) => View(M) = View(pre2)

(* C3: on the constructed scene, add_door(Single Door), add_window(Single  *)
(* Window), add_furniture(Dining Chair), select the chair, move it by      *)
(* (0.1, 0, 0.1) and undo once: the chair exists at its position of before *)
(* the move, and the scene holds one door and one window after the move    *)
(* and after the undo.                                                     *)
C3_EndToEnd ==
    (/\ steps = 6 /\ op[1] = "undo" /\ prevOp[1] = "move_selected_object"
     /\ Descriptions(pre2.history) = << <<"Add", "Single Door">>,
                                        <<"Add", "Single Window">>,
                                        <<"Add", "Dining Chair">> >>
     /\ Len(pre2.furniture) = 1
     /\ pre2.selected_object = pre2.furniture[1])
        => /\ Len(pre.doors) = 1 /\ Len(pre.windows) = 1
           /\ Len(doors) = 1 /\ Len(windows) = 1
           /\ Len(furniture) = 1
           /\ heap[furniture[1]].position = pre2.heap[pre2.furniture[1]].position

(* C4: undo called when can_undo() is true raises nothing, leaves          *)
(* history_index one less than before, makes the scene equal to the        *)
(* snapshot at the new history_index and returns the description of the    *)
(* entry at the old history_index.                                         *)
C4_UndoContract ==
    (op[1] = "undo" /\ can_undo(pre))
        => /\ ret # IndexError
           /\ history_index = pre.history_index - 1
           /\ SceneOf(M) = Resolve(pre.history[history_index + 1].objects, pre.parts)
           /\ ret = pre.history[pre.history_index + 1].description

(* C5: a _save_state call made while history_index < len(history) - 1      *)
(* drops every entry after history_index, appends the new snapshot as the  *)
(* last entry, leaves history_index = len(history) - 1 and can_redo()      *)
(* false, and keeps the entries up to the old history_index unchanged      *)
(* unless the cap evicts the oldest.                                       *)
C5_SaveStateTruncates ==
    \A k \in 1..Len(calls) :
        calls[k].pre_index < Len(calls[k].pre_history) - 1 =>
            /\ calls[k].post_history[Len(calls[k].post_history)] =
                  [objects |-> calls[k].objects,
                   description |-> calls[k].description]
            /\ calls[k].post_index = Len(calls[k].post_history) - 1
            /\ ~can_redo([history |-> calls[k].post_history,
                          history_index |-> calls[k].post_index])
            /\ IF calls[k].pre_index + 2 <= max_history
               THEN /\ Len(calls[k].post_history) = calls[k].pre_index + 2
                    /\ SubSeq(calls[k].post_history, 1, calls[k].pre_index + 1)
                         = SubSeq(calls[k].pre_history, 1, calls[k].pre_index + 1)
               ELSE /\ Len(calls[k].post_history) = max_history
                    /\ SubSeq(calls[k].post_history, 1, calls[k].pre_index)
                         = SubSeq(calls[k].pre_history, 2, calls[k].pre_index + 1)

C5_Witness ==
    \E k \in 1..Len(calls) :
        /\ calls[k].pre_index < Len(calls[k].pre_history) - 1
        /\ calls[k].pre_index >= 0
        /\ Len(calls[k].post_history) = calls[k].pre_index + 2

(* C6: the history holds at most 20 entries, -1 <= history_index <=        *)
(* len(history) - 1 with -1 only for an empty history, a 21st entry evicts *)
(* the oldest one and decrements history_index, and once the history is    *)
(* full repeated undo reaches can_undo() false: each undo that can_undo()  *)
(* allows moves history_index down.                                        *)
C6_HistoryBounded ==
    /\ Len(history) <= max_history
    /\ 0 - 1 <= history_index /\ history_index <= Len(history) - 1
    /\ (history_index = 0 - 1 => history = <<>>)
    /\ \A k \in 1..Len(calls) :
          (Len(calls[k].pre_history) = max_history
           /\ calls[k].pre_index = max_history - 1)
            => /\ Len(calls[k].post_history) = max_history
               /\ SubSeq(calls[k].post_history, 1, max_history - 1)
                    = Tail(calls[k].pre_history)
               /\ calls[k].post_index = max_history - 1
    /\ (op[1] = "undo" /\ Len(pre.history) = max_history /\ can_undo(pre))
          => history_index < pre.history_index

(* C7: save_scene() followed by load_scene() of the record is lossless:    *)
(* the same room attributes and the same doors, windows and furniture with *)
(* the same attribute values, so that save_scene() after the load equals   *)
(* the record loaded.                                                      *)
C7_SaveLoadLossless ==
    (op = <<"load_scene", "saved">>)
        => /\ ret = <<"True">>
           /\ RoomOf(M) = RoomOf(pre)
           /\ View(M) = View(pre)

(* C8: a mutation of a live entity (position, rotation, colour, an         *)
(* adjustable part changed by adjust_part) changes the content of no       *)
(* history entry stored before it.                                         *)
C8_SnapshotsIndependent ==
    (op[1] \in {"move_selected_object", "rotate_selected_object",
                "set_object_color", "adjust_part"}
     /\ Len(pre.history) <= Len(history))
        => \A i \in 1..Len(pre.history) :
              /\ history[i].description = pre.history[i].description
              /\ Resolve(history[i].objects, parts)
                   = Resolve(pre.history[i].objects, pre.parts)

(* C9: the ids of doors, windows and furniture are pairwise distinct, each *)
(* entity of a typed collection is the value of the id index under its own *)
(* id, and each non-room value of the id index is in exactly one typed     *)
(* collection.                                                             *)
Typed == doors \o windows \o furniture
C9_IdsIndexBijection ==
    /\ \A i, j \in 1..Len(Typed) :
          i # j => /\ Typed[i] # Typed[j]
                   /\ heap[Typed[i]].id # heap[Typed[j]].id
    /\ \A i \in 1..Len(Typed) :
          /\ DictHas(object_map, heap[Typed[i]].id)
          /\ DictGet(object_map, heap[Typed[i]].id) = Typed[i]
    /\ \A v \in DictValues(object_map) \ {room} : ListHas(Typed, v)

(* C10: at most one entity of the scene (room, doors, windows, furniture)  *)
(* has is_selected true, and set_selected_object(B) called while A is      *)
(* selected leaves A.is_selected false and B.is_selected true.             *)
C10_SingleSelection ==
    /\ Cardinality({r \in SeqRange(get_all_objects(M)) : heap[r].is_selected}) <= 1
    /\ (op[1] = "set_selected_object" /\ pre.selected_object # None
        /\ op[2] # None /\ op[2] # pre.selected_object)
          => /\ heap[op[2]].is_selected
             /\ pre.selected_object \in DOMAIN heap
                   => ~heap[pre.selected_object].is_selected

C10_Witness ==
    /\ op[1] = "set_selected_object" /\ pre.selected_object # None
    /\ op[2] # None /\ op[2] # pre.selected_object
    /\ pre.selected_object \in SeqRange(get_all_objects(M))
    /\ heap[op[2]].is_selected

(* C11: the selected object is null or an entity that is a value of the id *)
(* index, and set_room, the deletes, clear_scene, load_scene, undo and     *)
(* redo never leave the selection on an entity that is no longer in the    *)
(* scene.                                                                  *)
C11_SelectionInIndex ==
    /\ selected_object = None \/ selected_object \in DictValues(object_map)
    /\ op[1] \in {"set_room", "delete_selected_object", "delete_object",
                  "clear_scene", "load_scene", "undo", "redo"}
          => \/ selected_object = None
             \/ selected_object \in SeqRange(get_all_objects(M))


(* an object with its is_selected flag left out *)
Unflagged(o) == [o EXCEPT !.is_selected = FALSE]

(* C12: set_selected_object (with an entity or None) and cycle_selection    *)
(* record no history: the history list and history_index are the same      *)
(* before and after the call, _save_state is not called, and no attribute  *)
(* of an entity other than the is_selected flags changes.                  *)
C12_SelectionNotRecorded ==
    op[1] \in {"set_selected_object", "cycle_selection"}
        => /\ history = pre.history /\ history_index = pre.history_index
           /\ calls = <<>>
           /\ room = pre.room /\ doors = pre.doors /\ windows = pre.windows
           /\ furniture = pre.furniture /\ object_map = pre.object_map
           /\ last_id = pre.last_id
           /\ \A r \in DOMAIN heap : Unflagged(heap[r]) = Unflagged(pre.heap[r])
           /\ \A p \in DOMAIN parts : parts[p] = pre.parts[p]

C12_Witness ==
    /\ op[1] \in {"set_selected_object", "cycle_selection"}
    /\ pre.history # <<>> /\ pre.history_index >= 0
    /\ selected_object # None /\ selected_object # pre.selected_object
    /\ heap[selected_object].is_selected
    /\ ~pre.heap[selected_object].is_selected

(* the last call was an attempt to delete the room *)
DeletesRoom ==
    \/ op[1] = "delete_selected_object" /\ pre.selected_object = pre.room
    \/ /\ op[1] = "delete_object"
       /\ \/ op[2] = pre.heap[pre.room].id
          \/ /\ DictHas(pre.object_map, op[2])
             /\ DictGet(pre.object_map, op[2]) = pre.room

(* C13: an attempt to delete the room (delete_selected_object with the room *)
(* selected, delete_object with the id of the room) returns False and       *)
(* leaves the room reference, the typed lists, the id index and the history *)
(* as they were; in every state the scene has exactly one room, not None.   *)
C13_RoomNotDeletable ==
    /\ room # None
    /\ Cardinality({r \in SeqRange(get_all_objects(M)) : heap[r].kind = "Room"}) = 1
    /\ DeletesRoom
          => /\ ret = <<"False">>
             /\ room = pre.room /\ heap[room] = pre.heap[room]
             /\ doors = pre.doors /\ windows = pre.windows
             /\ furniture = pre.furniture /\ object_map = pre.object_map
             /\ history = pre.history /\ history_index = pre.history_index

C13_Witness ==
    /\ op[1] = "delete_selected_object"
    /\ pre.room # None /\ pre.selected_object = pre.room
    /\ pre.history # <<>> /\ pre.doors # <<>>
    /\ ret = <<"False">>

(* a list with every occurrence of x taken out *)
Without(list, x) ==
    LET Other(y) == y # x
    IN  SelectSeq(list, Other)

(* an id index with the entries of the value x taken out *)
WithoutValue(d, x) ==
    LET Other(kv) == kv[2] # x
    IN  SelectSeq(d, Other)

(* C14: delete_selected_object() with a selected entity E of the typed      *)
(* lists returns True, calls _save_state exactly once, before the removal,  *)
(* removes E and only E from its typed list and from the id index, and      *)
(* sets the selection to None.                                              *)
C14_DeleteSelected ==
    (/\ op[1] = "delete_selected_object"
     /\ pre.selected_object \in SeqRange(pre.doors \o pre.windows \o pre.furniture))
        => /\ ret = <<"True">>
           /\ Len(calls) = 1
           /\ calls[1].objects = save_scene(pre)
           /\ doors = Without(pre.doors, pre.selected_object)
           /\ windows = Without(pre.windows, pre.selected_object)
           /\ furniture = Without(pre.furniture, pre.selected_object)
           /\ object_map = WithoutValue(pre.object_map, pre.selected_object)
           /\ selected_object = None

(* ------------------- float32 storage of a position --------------------- *)
(* BaseObject keeps position as np.array(..., dtype=np.float32): the code n *)
(* of a component stands for the float32 nearest to n/1000.  A float32 has  *)
(* a 24 bit significand: for 2^e <= a/1000 < 2^(e+1) the spacing is         *)
(* 2^(e-23), and a/1000 is a * 2^(20-e) / 125 spacings.                     *)
RECURSIVE float32_scaled(_)
float32_scaled(a) == IF a >= 1048576000 THEN a ELSE float32_scaled(2 * a)

(* the sign of float32(n/1000) - n/1000 (125 is odd: there is no tie) *)
float32_error(n) ==
    IF n = 0 THEN 0
    ELSE LET a == IF n < 0 THEN 0 - n ELSE n
             r == float32_scaled(a) % 125
             away == IF n < 0 THEN 0 - 1 ELSE 1
         IN  IF r = 0 THEN 0 ELSE IF 2 * r < 125 THEN 0 - away ELSE away

(* float32(n/1000) <= b/1000 and float32(n/1000) >= b/1000 *)
float32_le(n, b) == n < b \/ (n = b /\ float32_error(n) <= 0)
float32_ge(n, b) == n > b \/ (n = b /\ float32_error(n) >= 0)

(* C15: after each move_selected_object call on a selected entity the       *)
(* stored position satisfies |x| <= room.width/2 - 0.1,                     *)
(* |z| <= room.length/2 - 0.1 and 0 <= y <= room.height - 0.1 for the       *)
(* current room.                                                            *)
C15_MoveStaysInRoom ==
    (op[1] = "move_selected_object" /\ ret = <<"True">>
     /\ heap[selected_object].kind # "Room")
        => /\ float32_le(heap[selected_object].position[1], (heap[room].width \div 2) - 100)
           /\ float32_ge(heap[selected_object].position[1], 0 - ((heap[room].width \div 2) - 100))
           /\ float32_le(heap[selected_object].position[3], (heap[room].length \div 2) - 100)
           /\ float32_ge(heap[selected_object].position[3], 0 - ((heap[room].length \div 2) - 100))
           /\ float32_ge(heap[selected_object].position[2], 0)
           /\ float32_le(heap[selected_object].position[2], heap[room].height - 100)

(* C16: after each rotate_selected_object call on a selected entity, with   *)
(* positive or negative deltas, each rotation component equals             *)
(* (previous + delta) mod 360 and lies in [0, 360).                        *)
C16_RotationMod360 ==
    (op[1] = "rotate_selected_object" /\ ret = <<"True">>
     /\ heap[selected_object].kind # "Room")
        => \A i \in 1..3 :
              /\ heap[selected_object].rotation[i]
                    = (pre.heap[selected_object].rotation[i] + op[2][i]) % (360 * Deg)
              /\ heap[selected_object].rotation[i] >= 0
              /\ heap[selected_object].rotation[i] < 360 * Deg

(* Room.north_wall_color .. west_wall_color: the override of the wall, or   *)
(* the shared wall_color when the wall has none                            *)
Walls == {"north_wall", "south_wall", "east_wall", "west_wall"}
WallAttr(wall) ==
    CASE wall = "north_wall" -> "north_wall_color"
      [] wall = "south_wall" -> "south_wall_color"
      [] wall = "east_wall" -> "east_wall_color"
      [] wall = "west_wall" -> "west_wall_color"
wall_color_of(r, wall) ==
    IF r[WallAttr(wall)] # NoColor THEN r[WallAttr(wall)] ELSE r.wall_color
NoOverride(r, walls) == \A w \in walls : r[WallAttr(w)] = NoColor

(* C17: set_room_color on one wall of a room without overrides makes the    *)
(* other walls read the new colour through the shared wall_color; one wall  *)
(* updates wall_color exactly while the other three have no override; with  *)
(* north_wall and south_wall both overridden, a call on either changes that *)
(* wall only and leaves wall_color; "walls" sets wall_color and clears the  *)
(* four overrides.                                                         *)
C17_WallColorFallback ==
    op[1] = "set_room_color"
        => /\ room = pre.room
           /\ (op[4] \in Walls /\ NoOverride(pre.heap[room], Walls))
                 => \A w \in Walls : wall_color_of(heap[room], w) = _hex_to_rgb(op[2])
           /\ op[4] \in Walls
                 => /\ heap[room][WallAttr(op[4])] = _hex_to_rgb(op[2])
                    /\ heap[room].wall_color =
                          IF NoOverride(pre.heap[room], Walls \ {op[4]})
                          THEN _hex_to_rgb(op[2]) ELSE pre.heap[room].wall_color
           /\ (op[4] \in {"north_wall", "south_wall"}
               /\ ~NoOverride(pre.heap[room], {"north_wall"})
               /\ ~NoOverride(pre.heap[room], {"south_wall"}))
                 => /\ heap[room].wall_color = pre.heap[room].wall_color
                    /\ \A w \in Walls \ {op[4]} :
                          /\ heap[room][WallAttr(w)] = pre.heap[room][WallAttr(w)]
                          /\ wall_color_of(heap[room], w) = wall_color_of(pre.heap[room], w)
           /\ op[4] = "walls"
                 => /\ heap[room].wall_color = _hex_to_rgb(op[2])
                    /\ NoOverride(heap[room], Walls)

C17_Witness ==
    /\ op[1] = "set_room_color" /\ op[4] = "north_wall"
    /\ ~NoOverride(pre.heap[room], {"north_wall"})
    /\ ~NoOverride(pre.heap[room], {"south_wall"})
    /\ heap[room].north_wall_color # pre.heap[room].north_wall_color
    /\ heap[room].wall_color # _hex_to_rgb(op[2])
    /\ wall_color_of(heap[room], "east_wall") # wall_color_of(heap[room], "north_wall")

(* C18: load_scene never raises; on malformed input (not a record, an       *)
(* entity record without a required attribute, values of the wrong type)    *)
(* it returns False and leaves doors, windows, furniture and the id index   *)
(* empty, the selection None and the room the default room of clear_scene.  *)
C18_LoadFailsClean ==
    (op[1] = "load_scene" /\ op[2] = "malformed")
        => /\ ret = <<"False">>
           /\ doors = <<>> /\ windows = <<>> /\ furniture = <<>>
           /\ object_map = <<>>
           /\ selected_object = None
           /\ room # None
           /\ heap[room] = Room(UUID, <<"Empty Room">>, "bedroom", 5000, 5000, 2500, <<0, 0, 0>>, <<0, 0, 0>>)

(* the handlers that act on the selected object *)
Guarded == {"move_selected_object", "rotate_selected_object",
            "set_selected_object_position", "set_selected_object_rotation",
            "delete_selected_object"}

(* C19: move_selected_object, rotate_selected_object,                       *)
(* set_selected_object_position, set_selected_object_rotation and           *)
(* delete_selected_object, called with no selection or with a Room          *)
(* selected, return False and change nothing: the entities, the typed       *)
(* lists, the id index, the selection, the history and history_index are    *)
(* as before the call.                                                      *)
C19_NoOpGuards ==
    (/\ op[1] \in Guarded
     /\ \/ pre.selected_object = None
        \/ pre.heap[pre.selected_object].kind = "Room")
        => /\ ret = <<"False">>
           /\ calls = <<>>
           /\ heap = pre.heap /\ parts = pre.parts
           /\ room = pre.room /\ doors = pre.doors /\ windows = pre.windows
           /\ furniture = pre.furniture /\ object_map = pre.object_map
           /\ selected_object = pre.selected_object
           /\ history = pre.history /\ history_index = pre.history_index

(* the doors, then the windows, then the furniture of a manager *)
TypedOf(m) == m.doors \o m.windows \o m.furniture

(* the entity after position i of a list, the first one after the last *)
Successor(list, i) == list[(i % Len(list)) + 1]

(* the entities n successive picks with cycle = TRUE return, nxt being the *)
(* first of them                                                           *)
RECURSIVE CycleVisits(_, _, _)
CycleVisits(m, nxt, n) ==
    IF n = 0 THEN <<>>
    ELSE <<nxt>> \o CycleVisits(m, pick_object(m, TRUE, nxt), n - 1)

(* the visits end on `start` and are the entities of the list, each once *)
VisitsAll(visits, list, start) ==
    /\ visits[Len(list)] = start
    /\ SeqRange(visits) = SeqRange(list)

(* what cycle_selection is to return from the manager m *)
NextInCycle(m) ==
    IF TypedOf(m) = <<>> THEN None
    ELSE IF \E i \in 1..Len(TypedOf(m)) : TypedOf(m)[i] = m.selected_object
    THEN Successor(TypedOf(m),
                   CHOOSE i \in 1..Len(TypedOf(m)) : TypedOf(m)[i] = m.selected_object)
    ELSE TypedOf(m)[1]

(* C20: pick_object never returns the room and returns None when there is  *)
(* no door, window or furniture; with cycle = TRUE and current_object       *)
(* pickable it returns the successor of current_object in the order doors,  *)
(* windows, furniture, wrapping from the last to the first, so that k       *)
(* successive cycles over k pickable entities visit each once and come      *)
(* back to the start; cycle_selection returns and selects that successor.   *)
C20_PickCycles ==
    /\ \A cycle \in BOOLEAN :
          \A current \in SeqRange(get_all_objects(M)) \cup {None} :
              /\ pick_object(M, cycle, current) # room
              /\ Typed = <<>> => pick_object(M, cycle, current) = None
              /\ Typed # <<>> => pick_object(M, cycle, current) \in SeqRange(Typed)
    /\ \A i \in 1..Len(Typed) :
          /\ pick_object(M, TRUE, Typed[i]) = Successor(Typed, i)
          /\ VisitsAll(CycleVisits(M, pick_object(M, TRUE, Typed[i]), Len(Typed)),
                       Typed, Typed[i])
    /\ op[1] = "cycle_selection"
          => /\ ret = <<"obj", NextInCycle(pre)>>
             /\ selected_object = IF NextInCycle(pre) # None
                                  THEN NextInCycle(pre) ELSE pre.selected_object

C20_Witness ==
    /\ op[1] = "cycle_selection"
    /\ pre.doors # <<>> /\ pre.windows # <<>>
    /\ pre.selected_object = pre.windows[Len(pre.windows)]
    /\ pre.furniture = <<>>
    /\ ret = <<"obj", pre.doors[1]>>
    /\ selected_object = pre.doors[1]

(* the doors, windows and furniture of a manager, by content *)
Entities(m) ==
    [doors |-> ListOf(m, m.doors), windows |-> ListOf(m, m.windows),
     furniture |-> ListOf(m, m.furniture)]

(* C21: clear_scene() records a snapshot of the scene of before the clear,  *)
(* then leaves doors, windows, furniture and the id index empty, the        *)
(* selection None, last_id 0 and the room a default empty room; an undo()   *)
(* right after clear_scene() brings back the entities that were cleared.    *)
C21_ClearScene ==
    /\ op[1] = "clear_scene"
          => /\ Len(calls) >= 1
             /\ calls[1].description = <<"Clear Scene">>
             /\ calls[1].objects = save_scene(pre)
             /\ doors = <<>> /\ windows = <<>> /\ furniture = <<>>
             /\ object_map = <<>> /\ selected_object = None /\ last_id = 0
             /\ room # None
             /\ heap[room] = Room(UUID, <<"Empty Room">>, "bedroom", 5000, 5000, 2500, <<0, 0, 0>>, <<0, 0, 0>>)
    /\ (op[1] = "undo" /\ prevOp[1] = "clear_scene")
          => Entities(M) = Entities(pre2)

(* the attributes RoomOf reads, of every Room a save_scene() record holds *)
RoomKeys ==
    {"name", "room_type", "width", "length", "height", "wall_color",
     "north_wall_color", "south_wall_color", "east_wall_color",
     "west_wall_color", "floor_color", "ceiling_color", "wall_opacity",
     "floor_opacity", "ceiling_opacity"}
RoomsIn(objects) ==
    {[k \in RoomKeys |-> objects[i][2][k]] :
        i \in {j \in 1..Len(objects) : objects[j][2].type = "Room"}}

(* C22: when set_room replaces room R1 by R2, the history entry recorded    *)
(* before the replacement contains R1 (name, type, dimensions, colours),    *)
(* and an undo() loading that entry makes the scene's room equal R1 again.  *)
C22_SetRoomUndo ==
    /\ op[1] = "set_room"
          => /\ Len(calls) >= 1
             /\ RoomOf(pre) \in RoomsIn(calls[1].objects)
    /\ (op[1] = "undo" /\ prevOp[1] = "set_room")
          => RoomOf(M) = RoomOf(pre2)

(* the least value each dimension may hold, in millimetres *)
Floor(kind, attr) ==
    CASE kind = "Room" -> 1000
      [] kind = "Door" /\ attr = "width" -> 600
      [] kind = "Door" /\ attr = "height" -> 1800
      [] kind = "Door" /\ attr = "thickness" -> 10
      [] kind = "Window" /\ attr = "thickness" -> 50
      [] kind = "Window" -> 500
      [] kind = "Furniture" -> 100

(* attribute attr of o holds the input, or the floor when the input is less *)
Floored(o, attr, input) ==
    o[attr] = IF input < Floor(o.kind, attr) THEN Floor(o.kind, attr) ELSE input

(* C23: a dimension given to a constructor (set_room, add_door, add_window, *)
(* add_furniture) or to a setter is stored as given when it is at or above   *)
(* the floor of its class and attribute, and as that floor when it is below  *)
(* (Room 1.0; Door width 0.6, height 1.8, thickness 0.01; Window width and   *)
(* height 0.5, thickness 0.05; Furniture 0.1).                               *)
C23_DimensionFloors ==
    /\ (op[1] = "add_door" /\ Len(op) = 5)
          => /\ Floored(heap[doors[Len(doors)]], "width", op[3])
             /\ Floored(heap[doors[Len(doors)]], "height", op[4])
             /\ Floored(heap[doors[Len(doors)]], "thickness", op[5])
    /\ (op[1] = "add_window" /\ Len(op) = 4)
          => /\ Floored(heap[windows[Len(windows)]], "width", op[3])
             /\ Floored(heap[windows[Len(windows)]], "height", op[4])
    /\ (op[1] = "add_furniture" /\ Len(op) = 5)
          => /\ Floored(heap[furniture[Len(furniture)]], "width", op[3])
             /\ Floored(heap[furniture[Len(furniture)]], "depth", op[4])
             /\ Floored(heap[furniture[Len(furniture)]], "height", op[5])
    /\ (op[1] = "set_room" /\ Len(op) = 5)
          => /\ Floored(heap[room], "width", op[3])
             /\ Floored(heap[room], "length", op[4])
             /\ Floored(heap[room], "height", op[5])
    /\ op[1] = "setattr"
          => Floored(heap[get_all_objects(M)[op[2]]], op[3], op[4])

(* a door was added with a thickness below 0.01, and a setter was given a   *)
(* value below the floor of its attribute                                   *)
C23_Witness ==
    /\ op[1] = "setattr"
    /\ op[4] < Floor(heap[get_all_objects(M)[op[2]]].kind, op[3])
    /\ prevOp[1] = "add_door" /\ Len(prevOp) = 5 /\ prevOp[5] < 10

(* C24: every opacity stored on the room lies in [0, 1]: an opacity below 0 *)
(* or above 1 given to set_room_color or set_room_interior_color is        *)
(* clamped, never stored as given.                                         *)
C24_OpacityInRange ==
    room # None =>
        \A k \in {"wall_opacity", "floor_opacity", "ceiling_opacity"} :
            heap[room][k] >= 0 /\ heap[room][k] <= 1000

(* the last call moved or rotated a selected door, window or furniture *)
MovesEntity ==
    /\ op[1] \in {"move_selected_object", "rotate_selected_object"}
    /\ pre.selected_object # None
    /\ pre.heap[pre.selected_object].kind # "Room"

(* C25: move_selected_object and rotate_selected_object on a selected       *)
(* non-room entity record exactly one history entry, after the mutation:    *)
(* the entry appended holds the entity with its position (clamped) and its  *)
(* angles of after the call.                                                *)
C25_MoveRecordsAfter ==
    MovesEntity =>
        /\ ret = <<"True">>
        /\ Len(calls) = 1
        /\ history = calls[1].post_history
        /\ history_index = Len(history) - 1
        /\ Len(history) = pre.history_index + 2
        /\ SubSeq(history, 1, Len(history) - 1)
             = SubSeq(pre.history, 1, pre.history_index + 1)
        /\ history[Len(history)].objects = save_scene(M)
        /\ DictHas(history[Len(history)].objects, heap[selected_object].id)
        /\ DictGet(history[Len(history)].objects, heap[selected_object].id).position
             = heap[selected_object].position
        /\ DictGet(history[Len(history)].objects, heap[selected_object].id).rotation
             = heap[selected_object].rotation

(* the colours of the surfaces of a room, exterior and interior *)
SurfaceKeys ==
    {"wall_color", "north_wall_color", "south_wall_color", "east_wall_color",
     "west_wall_color", "floor_color", "ceiling_color", "interior_wall_color",
     "interior_north_wall_color", "interior_south_wall_color",
     "interior_east_wall_color", "interior_west_wall_color",
     "interior_floor_color", "interior_ceiling_color"}
SurfacesIn(objects) ==
    {[k \in SurfaceKeys |-> objects[i][2][k]] :
        i \in {j \in 1..Len(objects) : objects[j][2].type = "Room"}}

(* the last call set the colour of an object or of the room *)
PaintsObject == op[1] = "set_object_color" /\ op[2] # None
PaintsRoom == op[1] \in {"set_room_color", "set_room_interior_color"}

(* C26: set_object_color (on an object that is not None), set_color_by_type, *)
(* set_room_color and set_room_interior_color each append exactly one       *)
(* history entry before they mutate, also when the colour does not change   *)
(* or the type or component matches nothing, and that entry holds the       *)
(* colours (of the object, or of the surfaces of the room) of before the    *)
(* change.                                                                  *)
C26_ColorRecordsBefore ==
    /\ (PaintsObject \/ PaintsRoom \/ op[1] = "set_color_by_type")
          => /\ Len(calls) = 1
             /\ calls[1].objects = save_scene(pre)
             /\ history = calls[1].post_history
             /\ history_index = Len(history) - 1
             /\ history[Len(history)].objects = calls[1].objects
    /\ (PaintsObject /\ pre.heap[op[2]].kind \in {"Door", "Furniture"})
          => /\ DictHas(history[Len(history)].objects, pre.heap[op[2]].id)
             /\ DictGet(history[Len(history)].objects, pre.heap[op[2]].id).color
                  = pre.heap[op[2]].color
    /\ PaintsRoom
          => [k \in SurfaceKeys |-> pre.heap[pre.room][k]]
                \in SurfacesIn(history[Len(history)].objects)

(* the exterior colours of a room *)
Exterior(r) ==
    [k \in {"wall_color", "north_wall_color", "south_wall_color",
            "east_wall_color", "west_wall_color", "floor_color",
            "ceiling_color"} |-> r[k]]

(* C30: set_room_interior_color(c, o, "interior_walls") on a room whose     *)
(* exterior wall_color still has its default value also sets the exterior   *)
(* wall_color to c; once the exterior wall colour has been changed from the *)
(* default it leaves every exterior colour unchanged; the other interior    *)
(* components never change an exterior colour.                              *)
C30_InteriorSync ==
    op[1] = "set_room_interior_color" =>
        IF op[4] # "interior_walls"
        THEN Exterior(heap[room]) = Exterior(pre.heap[pre.room])
        ELSE IF pre.heap[pre.room].wall_color = <<800, 800, 800>>
        THEN heap[room].wall_color = _hex_to_rgb(op[2])
        ELSE Exterior(heap[room]) = Exterior(pre.heap[pre.room])

(* C27: the segments of a Window are determined by its type in every state: *)
(* at least 3 for a "Bay Window", exactly 2 for a "Double Window", exactly  *)
(* 1 for any other type; right after add_window, after a change of type,    *)
(* after an assignment to segments and after a save/load round trip.        *)
C27_SegmentsByType ==
    \A i \in 1..Len(windows) :
        IF heap[windows[i]].window_type = "Bay Window"
        THEN heap[windows[i]].segments >= 3
        ELSE IF heap[windows[i]].window_type = "Double Window"
        THEN heap[windows[i]].segments = 2
        ELSE heap[windows[i]].segments = 1

(* C29: undo() and redo() move the cursor and replace the live scene only:  *)
(* they never append to, remove from or reorder the history, so the history *)
(* is the same after the call as before, and after an undo() that           *)
(* can_undo() allowed can_redo() is true.                                   *)
C29_UndoRedoFrame ==
    /\ op[1] \in {"undo", "redo"} => history = pre.history
    /\ (op[1] = "undo" /\ can_undo(pre)) => can_redo(M)

(* the objects a frame draws *)
Drawn == SeqRange(get_all_objects(M))

(* C28: the mesh cache never returns a mesh built for other shape           *)
(* parameters: after a frame the mesh under the key of every object of the  *)
(* scene is the mesh of that object's type, width, height, depth, thickness *)
(* and segments, and two objects that differ in any of these have different *)
(* cache keys; for rooms, doors, windows and furniture.                     *)
C28_MeshCacheKeys ==
    /\ op[1] = "render"
          => \A o \in Drawn :
                /\ DictHas(mesh_cache, mesh_key(heap[o]))
                /\ DictGet(mesh_cache, mesh_key(heap[o])) = create_mesh(heap[o])
    /\ \A o1, o2 \in Drawn :
          create_mesh(heap[o1]) # create_mesh(heap[o2])
             => mesh_key(heap[o1]) # mesh_key(heap[o2])
====
